---- MODULE Spec2Model ----
(***************************************************************************)
(* Model of the RCA audit-trail ETL (Piyush30P/POC).                       *)
(*                                                                         *)
(* Spec      : one run of the batch job over the reporting store: the      *)
(*             fact loaders of src/etl/loaders/rca_loaders.py, the         *)
(*             watermark upsert of src/etl/state.py and the two job        *)
(*             bodies of scripts/run_rca_etl.py.  A run either extracts    *)
(*             short lists of varied records, or feeds one loader a long   *)
(*             list of uniform records so that it reaches its batch        *)
(*             commits.                                                    *)
(*                                                                         *)
(* SpecRecon  : extract_scenario_state_changes over one fc_scenario row.   *)
(* SpecReconAny: the same, over a row whose created_at may be unset.       *)
(* SpecSeq    : extract_input_change_sequence over a query result.         *)
(* SpecJourney: reconstruct_user_journey over four input lists.            *)
(* SpecDiff   : identify_run_context_changes over runs and input changes.  *)
(* SpecSession: group_actions_by_session over a list of actions.           *)
(* SpecActions: extract_user_actions over the three source tables.         *)
(*             Each of these draws the call's inputs in its initial state  *)
(*             and steps through the function's body.                      *)
(*                                                                         *)
(* SpecConc   : two load_audit_trail_data invocations running at the same  *)
(*             time on one reporting database (PostgreSQL, READ COMMITTED).*)
(* SpecMain   : main() over a parsed command line.                         *)
(*                                                                         *)
(* The job bodies are modelled as given working Session objects: a         *)
(* session is a transaction view `sess` over the committed store `db`.     *)
(* The loaders iterate their input exactly once and in order, so an        *)
(* extracted list is revealed one record per loop iteration.               *)
(***************************************************************************)
EXTENDS Integers, Sequences, FiniteSets, TLC

\* ---------------------------------------------------------------- bounds
MaxRecords == 3          \* most records a run of varied records extracts
MaxBulkRecords == 1001   \* most records of a long uniform list
MaxClock == 1            \* the clock runs over 0..MaxClock
MaxT == 3               \* lifecycle and event timestamps run over 1..MaxT
MaxNodeData == 5        \* most edit rows of the scenario whose changes are sequenced
MaxEvents == 3          \* most records the four lists of a journey hold together
MaxJourneyRuns == 2     \* most runs among the records of a journey
MaxRunT == 4            \* run and input-change instants of a diff run over 1..MaxRunT
MaxDiffInputs == 4      \* most runs and input changes a diff is given together
MaxTicks == 9           \* action instants of a session grouping run over 0, 5, ..., 5 * MaxTicks minutes
MaxActions == 3         \* most actions a session grouping is given
MaxConcRecords == 2     \* most records one of two concurrent loaders is given
MaxCloudWatchDays == 2   \* --cloudwatch-days runs over 0..MaxCloudWatchDays

\* ------------------------------------------------------ program constants
StateChangeBatch == 500
UserActionBatch == 500
CloudWatchBatch == 1000
DiagnosticBatch == 500
IncrementalHours == 24
\* group_actions_by_session(session_gap_minutes=30), in minutes
DefaultSessionGap == 30

\* None of a surrogate-key lookup (scalar_one_or_none); keys start at 1, and
\* `if not result` treats None and 0 alike.
NoneKey == 0
\* a null timestamp column, or an absent datetime argument; instants are 1, 2, ...
NoInstant == 0
\* model_node_id values
NodeIds == {"A", "B"}

NULL == "NULL"
ScenarioIds == {"s1", "s2"}
UserIds == {"u1", "u2"}
Loaders == {"state_changes", "user_actions", "cloudwatch_logs", "run_diagnostics"}
Jobs == {"audit_trail", "cloudwatch", "run_diagnostics"}

VARIABLES
    clock,              \* datetime.now(timezone.utc)
    job,                \* which entry point runs
    full_load,          \* load_audit_trail_data(full_load=...)
    since_hours,        \* load_audit_trail_data(since_hours=...)
    pc,                 \* position of the run
    loader,             \* the loader whose loop is running
    since,              \* {} for None, {t} for a cutoff t
    end_time,           \* load_cloudwatch_data: end_time
    extraction_cutoff,  \* instant through which this run's extract read the source
    db,                 \* committed reporting store
    sess,               \* the reporting session's view: db plus uncommitted work
    db0,                \* the committed store when the run started
    user_key_seq,       \* dim_user.user_key autoincrement sequence
    fed,                \* per scenario id, the records the running loader has iterated
    loaded_count,       \* loader local
    scenario_key_cache, \* loader local
    user_key_cache,     \* loader local
    user_stats,         \* per user id: resolutions, lookup queries, creations (this loader)
    returned,           \* return values of the loaders
    n_prev,             \* records the earlier loaders of this run have iterated
    known_users,        \* user ids with a dim_user row when the running loader started
    failed_at,          \* the position at which the run raised or died
    bulk,               \* the loader fed a long uniform list, or "none"
    fpc,                \* position of the extractor or transformer call under check
    fc_scenario,        \* source table fc_scenario
    arg_since,          \* extract_scenario_state_changes(since=...)
    arg_scenario_ids,   \* extract_scenario_state_changes(scenario_ids=...)
    scenarios,          \* the query's result
    n_yielded,          \* scenarios of the result the generator has gone through
    transitions,        \* the records the generator has yielded
    node_data_records,  \* extract_input_change_sequence: the query's result
    node_sequences,     \* extract_input_change_sequence local
    changes,            \* extract_input_change_sequence local
    journey_args,       \* reconstruct_user_journey's four lists
    timeline,           \* reconstruct_user_journey local
    diff_args,          \* identify_run_context_changes' arguments
    diff_result,        \* identify_run_context_changes' return value
    session_args,       \* group_actions_by_session's arguments
    actions,            \* group_actions_by_session local: the sorted actions
    n_grouped,          \* actions the loop has gone through
    current_session,    \* group_actions_by_session local
    sessions,           \* group_actions_by_session local, and its return value
    fc_scenario_node_data,\* source table fc_scenario_node_data
    fc_scenario_run,    \* source table fc_scenario_run
    yielded_actions,    \* the records extract_user_actions has yielded
    shared_db,          \* concurrent loaders: the committed reporting store
    loader_proc,        \* concurrent loaders: each invocation's position, locals and uncommitted work
    shared_user_key_seq,\* concurrent loaders: dim_user.user_key autoincrement sequence
    cli_args,           \* main(): the parsed command line
    main_calls          \* main(): the loads it has run, with their arguments

etl_vars == <<clock, job, full_load, since_hours, pc, loader, since, end_time,
              extraction_cutoff, db, sess, db0, user_key_seq, fed, loaded_count,
              scenario_key_cache, user_key_cache, user_stats, returned, n_prev,
              known_users, failed_at, bulk>>
recon_vars == <<fc_scenario, arg_since, arg_scenario_ids, scenarios, n_yielded, transitions>>
seq_vars == <<node_data_records, node_sequences, changes>>
journey_vars == <<journey_args, timeline>>
diff_vars == <<diff_args, diff_result>>
session_vars == <<session_args, actions, n_grouped, current_session, sessions>>
actions_vars == <<fc_scenario_node_data, fc_scenario_run, yielded_actions>>
conc_vars == <<shared_db, loader_proc, shared_user_key_seq>>
main_vars == <<cli_args, main_calls>>
fn_vars == <<fpc, recon_vars, seq_vars, journey_vars, diff_vars,
             session_vars,
             actions_vars,
             conc_vars,
             main_vars>>
vars == <<etl_vars, fn_vars>>

\* ------------------------------------------------------------- helpers
RECURSIVE SumOver(_, _)
SumOver(f, S) ==
    IF S = {} THEN 0
    ELSE LET x == CHOOSE y \in S : TRUE IN f[x] + SumOver(f, S \ {x})

IsPrefix(s, t) == Len(s) <= Len(t) /\ SubSeq(t, 1, Len(s)) = s

EmptyCache == [x \in {} |-> NoneKey]

FedIds == ScenarioIds \cup {NULL}
AllUserIds == UserIds \cup {NULL}
NoFed == [s \in FedIds |-> 0]
NoStats == [u \in AllUserIds |->
                [resolutions |-> 0, lookups |-> 0, creates |-> 0, keys |-> {}]]
n_in == SumOver(fed, FedIds)
\* node_sequences = {}: .get(node_id, 0) reads 0
NoSequences == [n \in NodeIds |-> 0]
\* four empty lists
NoStreams == [state_changes |-> <<>>, user_actions |-> <<>>,
              input_changes |-> <<>>, runs |-> <<>>]

\* ---------------------------------------------------------- the store
DimScenarioRow(scenario_id) ==
    [scenario_key |-> IF scenario_id = "s1" THEN 1 ELSE 2, scenario_id |-> scenario_id]

DimUser(user_key, user_id) ==
    [user_key |-> user_key, user_id |-> user_id, display_name |-> user_id]

TableNames == {"rca_audit_trail", "rca_cloudwatch_logs"}

PriorWatermark(tn) ==
    [table_name |-> tn, last_loaded_at |-> 0, last_run_started |-> 0,
     last_run_completed |-> 0, row_count_loaded |-> 7, status |-> "success"]

Store(ids, users, watermarks) ==
    [dim_scenario |-> {DimScenarioRow(s) : s \in ids},
     dim_user |-> {DimUser(IF u = "u1" THEN 11 ELSE 12, u) : u \in users},
     fact_scenario_state_change |-> <<>>,
     fact_user_action |-> <<>>,
     fact_cloudwatch_log |-> <<>>,
     fact_run_diagnostic |-> <<>>,
     etl_watermark |-> watermarks]

Commit_WithoutNewUsers(d, s) == [s EXCEPT !.dim_user = d.dim_user]

\* Session.commit(): the session's work becomes the committed store.
Commit(d, s) == s

\* Session.rollback(): the session's uncommitted work is discarded.
Rollback(d, s) == d

SelectScenarioKey(s, scenario_id) ==
    LET rows == {r \in s.dim_scenario : r.scenario_id = scenario_id}
    IN  IF rows = {} THEN NoneKey ELSE (CHOOSE r \in rows : TRUE).scenario_key

SelectUserKey(s, user_id) ==
    LET rows == {r \in s.dim_user : r.user_id = user_id}
    IN  IF rows = {} THEN NoneKey ELSE (CHOOSE r \in rows : TRUE).user_key

\* ------------------------------------------------- the extracted records
Limit == IF bulk = loader THEN MaxBulkRecords ELSE MaxRecords - n_prev

StateChangeChoices ==
    IF bulk # "none" THEN {[scenario_id |-> "s1", changed_by |-> "u1"]}
    ELSE [scenario_id : ScenarioIds, changed_by : AllUserIds]

UserActionChoices ==
    IF bulk # "none" THEN {[user_id |-> "u1", scenario_id |-> "s1"]}
    ELSE [user_id : AllUserIds, scenario_id : ScenarioIds \cup {NULL}]

LogChoices ==
    IF bulk # "none" THEN {[severity |-> "ERROR"]} ELSE [severity : {"ERROR", "INFO"}]

DiagnosticChoices ==
    IF bulk # "none" THEN {[severity |-> "error"]} ELSE [severity : {"error", "warning"}]

\* ------------------------------------------------ dimension key resolver
\* Mutant: a created user's key is not put in the cache.
ResolveUser_NoCache(s, cache, seq, user_id) ==
    IF user_id \in DOMAIN cache
    THEN [raised |-> FALSE, key |-> cache[user_id], cache |-> cache, sess |-> s,
          seq |-> seq, lookups |-> 0, creates |-> 0]
    ELSE LET result == SelectUserKey(s, user_id) IN
         IF result # NoneKey
         THEN [raised |-> FALSE, key |-> result, cache |-> cache,
               sess |-> s, seq |-> seq, lookups |-> 1, creates |-> 0]
         ELSE IF user_id = NULL
         THEN [raised |-> TRUE, key |-> NoneKey, cache |-> cache, sess |-> s,
               seq |-> seq, lookups |-> 1, creates |-> 0]
         ELSE [raised |-> FALSE, key |-> seq, cache |-> cache,
               sess |-> [s EXCEPT !.dim_user = @ \cup {DimUser(seq, user_id)}],
               seq |-> seq + 1, lookups |-> 1, creates |-> 1]

\* The user-key block of load_state_changes / load_user_actions: cache hit, or
\* lookup, or lookup + create (add, flush).  A NULL user id has no row (the
\* column is NOT NULL) and its INSERT fails at the flush.
ResolveUser(s, cache, seq, user_id) ==
    IF user_id \in DOMAIN cache
    THEN [raised |-> FALSE, key |-> cache[user_id], cache |-> cache, sess |-> s,
          seq |-> seq, lookups |-> 0, creates |-> 0]
    ELSE LET result == SelectUserKey(s, user_id) IN
         IF result # NoneKey
         THEN [raised |-> FALSE, key |-> result, cache |-> (user_id :> result) @@ cache,
               sess |-> s, seq |-> seq, lookups |-> 1, creates |-> 0]
         ELSE IF user_id = NULL
         THEN [raised |-> TRUE, key |-> NoneKey, cache |-> cache, sess |-> s,
               seq |-> seq, lookups |-> 1, creates |-> 0]
         ELSE [raised |-> FALSE, key |-> seq, cache |-> (user_id :> seq) @@ cache,
               sess |-> [s EXCEPT !.dim_user = @ \cup {DimUser(seq, user_id)}],
               seq |-> seq + 1, lookups |-> 1, creates |-> 1]

\* Mutant: the `continue` is missing, an unresolved scenario is loaded with no key.
ResolveScenarioStrict_NoSkip(s, cache, scenario_id) ==
    IF scenario_id \in DOMAIN cache
    THEN [found |-> TRUE, key |-> cache[scenario_id], cache |-> cache]
    ELSE LET result == SelectScenarioKey(s, scenario_id) IN
         [found |-> TRUE, key |-> result, cache |-> (scenario_id :> result) @@ cache]

\* The scenario-key block of load_state_changes: found = FALSE is `continue`.
ResolveScenarioStrict(s, cache, scenario_id) ==
    IF scenario_id \in DOMAIN cache
    THEN [found |-> TRUE, key |-> cache[scenario_id], cache |-> cache]
    ELSE LET result == SelectScenarioKey(s, scenario_id) IN
         IF result = NoneKey
         THEN [found |-> FALSE, key |-> NoneKey, cache |-> cache]
         ELSE [found |-> TRUE, key |-> result, cache |-> (scenario_id :> result) @@ cache]

\* Mutant: the key is read from the cache as it was before the lookup.
ResolveScenarioOptional_StaleKey(s, cache, scenario_id) ==
    IF scenario_id = NULL
    THEN [key |-> NoneKey, cache |-> cache]
    ELSE LET c == IF scenario_id \in DOMAIN cache THEN cache
                  ELSE LET result == SelectScenarioKey(s, scenario_id) IN
                       IF result # NoneKey THEN (scenario_id :> result) @@ cache
                       ELSE cache
         IN  [key |-> IF scenario_id \in DOMAIN cache THEN cache[scenario_id] ELSE NoneKey,
              cache |-> c]

\* The scenario-key block of load_user_actions: the key is optional.
ResolveScenarioOptional(s, cache, scenario_id) ==
    IF scenario_id = NULL
    THEN [key |-> NoneKey, cache |-> cache]
    ELSE LET c == IF scenario_id \in DOMAIN cache THEN cache
                  ELSE LET result == SelectScenarioKey(s, scenario_id) IN
                       IF result # NoneKey THEN (scenario_id :> result) @@ cache
                       ELSE cache
         IN  [key |-> IF scenario_id \in DOMAIN c THEN c[scenario_id] ELSE NoneKey,
              cache |-> c]

FactScenarioStateChange(change, scenario_key, user_key) ==
    [scenario_key |-> scenario_key, scenario_id |-> change.scenario_id,
     changed_by_user_key |-> user_key, correlation_id |-> change.correlation_id]

FactUserAction(action, scenario_key, user_key) ==
    [user_key |-> user_key, scenario_key |-> scenario_key,
     correlation_id |-> action.correlation_id]

FactCloudWatchLog(log) ==
    [severity |-> log.severity, correlation_id |-> log.correlation_id]

FactRunDiagnostic(diag) ==
    [severity |-> diag.severity, correlation_id |-> diag.correlation_id]

\* Mutant: every loader commits every 500 records.
BatchSize_Uniform(l) == StateChangeBatch

BatchSize(l) ==
    CASE l = "state_changes" -> StateChangeBatch
      [] l = "user_actions" -> UserActionBatch
      [] l = "cloudwatch_logs" -> CloudWatchBatch
      [] l = "run_diagnostics" -> DiagnosticBatch

\* `if loaded_count % N == 0: commit()` after an add.
AfterAdd(l, count) == IF count % BatchSize(l) = 0 THEN "batch_commit" ELSE "loop"

Stat(st, user_id, r) ==
    [st EXCEPT ![user_id] = [resolutions |-> @.resolutions + 1,
                             lookups |-> @.lookups + r.lookups,
                             creates |-> @.creates + r.creates,
                             keys |-> IF r.raised THEN @.keys ELSE @.keys \cup {r.key}]]

run_vars == <<job, full_load, since_hours, since, end_time, extraction_cutoff,
              db0, bulk, returned, n_prev, clock>>

\* Mutant: the handler commits what the session holds instead of rolling back.
Fail_Commits ==
    /\ sess' = Commit(db, sess)
    /\ db' = Commit(db, sess)
    /\ pc' = "failed"
    /\ failed_at' = pc

\* except Exception: reporting_session.rollback(); raise
Fail ==
    /\ sess' = Rollback(db, sess)
    /\ db' = db
    /\ pc' = "failed"
    /\ failed_at' = pc

\* ------------------------------------------------------------- loaders
\* One iteration of the loop of load_state_changes.
LoadStateChange ==
    /\ pc = "loop" /\ loader = "state_changes" /\ n_in < Limit
    /\ \E c \in StateChangeChoices :
        LET change == [scenario_id |-> c.scenario_id, changed_by |-> c.changed_by,
                       correlation_id |-> n_in + 1]
            sc == ResolveScenarioStrict(sess, scenario_key_cache, change.scenario_id)
            us == ResolveUser(sess, user_key_cache, user_key_seq, change.changed_by)
            record == FactScenarioStateChange(change, sc.key, us.key)
        IN  /\ fed' = [fed EXCEPT ![change.scenario_id] = @ + 1]
            /\ IF ~sc.found
               THEN UNCHANGED <<pc, db, sess, failed_at, loaded_count,
                                scenario_key_cache, user_key_cache, user_key_seq,
                                user_stats>>
               ELSE /\ scenario_key_cache' = sc.cache
                    /\ user_stats' = Stat(user_stats, change.changed_by, us)
                    /\ IF us.raised
                       THEN /\ Fail
                            /\ UNCHANGED <<loaded_count, user_key_cache, user_key_seq>>
                       ELSE /\ UNCHANGED <<db, failed_at>>
                            /\ user_key_cache' = us.cache
                            /\ user_key_seq' = us.seq
                            /\ sess' = [us.sess EXCEPT !.fact_scenario_state_change =
                                            Append(@, record)]
                            /\ loaded_count' = loaded_count + 1
                            /\ pc' = AfterAdd(loader, loaded_count + 1)
    /\ UNCHANGED <<run_vars, loader, known_users>>
    /\ UNCHANGED fn_vars

\* One iteration of the loop of load_user_actions.
LoadUserAction ==
    /\ pc = "loop" /\ loader = "user_actions" /\ n_in < Limit
    /\ \E c \in UserActionChoices :
        LET action == [user_id |-> c.user_id, scenario_id |-> c.scenario_id,
                       correlation_id |-> n_in + 1]
            us == ResolveUser(sess, user_key_cache, user_key_seq, action.user_id)
            sc == ResolveScenarioOptional(us.sess, scenario_key_cache, action.scenario_id)
            record == FactUserAction(action, sc.key, us.key)
        IN  /\ fed' = [fed EXCEPT ![action.scenario_id] = @ + 1]
            /\ user_stats' = Stat(user_stats, action.user_id, us)
            /\ IF us.raised
               THEN /\ Fail
                    /\ UNCHANGED <<loaded_count, user_key_cache, user_key_seq,
                                   scenario_key_cache>>
               ELSE /\ UNCHANGED <<db, failed_at>>
                    /\ user_key_cache' = us.cache
                    /\ user_key_seq' = us.seq
                    /\ scenario_key_cache' = sc.cache
                    /\ sess' = [us.sess EXCEPT !.fact_user_action = Append(@, record)]
                    /\ loaded_count' = loaded_count + 1
                    /\ pc' = AfterAdd(loader, loaded_count + 1)
    /\ UNCHANGED <<run_vars, loader, known_users>>
    /\ UNCHANGED fn_vars

\* One iteration of the loop of load_cloudwatch_logs.
LoadCloudWatchLog ==
    /\ pc = "loop" /\ loader = "cloudwatch_logs" /\ n_in < Limit
    /\ \E c \in LogChoices :
        LET log == [severity |-> c.severity, correlation_id |-> n_in + 1]
        IN  /\ fed' = [fed EXCEPT ![NULL] = @ + 1]
            /\ sess' = [sess EXCEPT !.fact_cloudwatch_log = Append(@, FactCloudWatchLog(log))]
            /\ loaded_count' = loaded_count + 1
            /\ pc' = AfterAdd(loader, loaded_count + 1)
    /\ UNCHANGED <<run_vars, db, loader, scenario_key_cache, user_key_cache,
                   user_key_seq, user_stats, known_users, failed_at>>
    /\ UNCHANGED fn_vars

\* One iteration of the loop of load_run_diagnostics.
LoadRunDiagnostic ==
    /\ pc = "loop" /\ loader = "run_diagnostics" /\ n_in < Limit
    /\ \E c \in DiagnosticChoices :
        LET diag == [severity |-> c.severity, correlation_id |-> n_in + 1]
        IN  /\ fed' = [fed EXCEPT ![NULL] = @ + 1]
            /\ sess' = [sess EXCEPT !.fact_run_diagnostic = Append(@, FactRunDiagnostic(diag))]
            /\ loaded_count' = loaded_count + 1
            /\ pc' = AfterAdd(loader, loaded_count + 1)
    /\ UNCHANGED <<run_vars, db, loader, scenario_key_cache, user_key_cache,
                   user_key_seq, user_stats, known_users, failed_at>>
    /\ UNCHANGED fn_vars

loader_locals == <<fed, loaded_count, scenario_key_cache, user_key_cache, user_stats>>

\* The commit inside the loop, every BatchSize added records.
BatchCommit ==
    /\ pc = "batch_commit"
    /\ db' = Commit(db, sess)
    /\ sess' = Commit(db, sess)
    /\ pc' = "loop"
    /\ UNCHANGED <<run_vars, loader, loader_locals, user_key_seq, known_users, failed_at>>
    /\ UNCHANGED fn_vars

\* The input is exhausted: the loop ends.
EndOfInput ==
    /\ pc = "loop"
    /\ pc' = "final_commit"
    /\ UNCHANGED <<run_vars, db, sess, loader, loader_locals, user_key_seq,
                   known_users, failed_at>>
    /\ UNCHANGED fn_vars

\* The commit after the loop; the loader then returns loaded_count.
FinalCommit ==
    /\ pc = "final_commit"
    /\ db' = Commit(db, sess)
    /\ sess' = Commit(db, sess)
    /\ returned' = [returned EXCEPT ![loader] = loaded_count]
    /\ pc' = "return"
    /\ UNCHANGED <<job, full_load, since_hours, since, end_time, extraction_cutoff,
                   db0, bulk, n_prev, clock, loader, loader_locals, user_key_seq,
                   known_users, failed_at>>
    /\ UNCHANGED fn_vars

\* ------------------------------------------------------ watermark store
\* update_watermark: INSERT ... ON CONFLICT (table_name) DO UPDATE SET ...
\* (last_run_started is written by the INSERT only).
update_watermark(wm, table_name, last_loaded_at, row_count, status, now) ==
    LET old == {r \in wm : r.table_name = table_name} IN
    IF old = {}
    THEN wm \cup {[table_name |-> table_name, last_loaded_at |-> last_loaded_at,
                   last_run_started |-> now, last_run_completed |-> now,
                   row_count_loaded |-> row_count, status |-> status]}
    ELSE {IF r.table_name = table_name
          THEN [r EXCEPT !.last_loaded_at = last_loaded_at,
                         !.last_run_completed = now,
                         !.row_count_loaded = @ + row_count,
                         !.status = status]
          ELSE r : r \in wm}

JobTable == IF job = "cloudwatch" THEN "rca_cloudwatch_logs" ELSE "rca_audit_trail"

\* The value the job passes as last_loaded_at: load_audit_trail_data passes a
\* fresh datetime.now(), load_cloudwatch_data passes end_time.
WatermarkInstant(now) ==
    IF job = "cloudwatch" THEN CHOOSE t \in end_time : TRUE ELSE now

\* The row count the job passes to update_watermark.
WatermarkRows ==
    IF job = "cloudwatch" THEN returned["cloudwatch_logs"]
    ELSE returned["state_changes"] + returned["user_actions"]

Running == {"extract", "loop", "batch_commit", "final_commit", "return",
            "update_watermark", "run_commit"}

\* ---------------------------------------------------------------- jobs
\* load_audit_trail_data: the time cutoff; load_cloudwatch_data: the time range.
Begin ==
    /\ pc = "start"
    /\ since' = IF job = "audit_trail" /\ ~full_load THEN {clock - since_hours} ELSE {}
    /\ end_time' = IF job = "cloudwatch" THEN {clock} ELSE {}
    /\ pc' = IF job = "run_diagnostics" THEN "loop" ELSE "extract"
    /\ UNCHANGED <<clock, job, full_load, since_hours, loader, extraction_cutoff, db,
                   sess, db0, user_key_seq, loader_locals, returned, n_prev,
                   known_users, failed_at, bulk>>
    /\ UNCHANGED fn_vars

\* The extract calls of the job: load_cloudwatch_data reads the source up to
\* end_time, load_audit_trail_data reads it as it is at the instant of the query.
\* Time passes during the loads; the clock is next read by UpdateWatermark.
Extract ==
    /\ pc = "extract"
    /\ extraction_cutoff' = IF job = "cloudwatch" THEN end_time ELSE {clock}
    /\ pc' = "loop"
    /\ UNCHANGED <<clock, job, full_load, since_hours, loader, since, end_time, db, sess,
                   db0, user_key_seq, loader_locals, returned, n_prev, known_users,
                   failed_at, bulk>>
    /\ UNCHANGED fn_vars

\* A loader has returned: the job goes on to its next statement.
Return ==
    /\ pc = "return"
    /\ IF job = "audit_trail" /\ loader = "state_changes"
       THEN /\ loader' = "user_actions"
            /\ n_prev' = n_prev + n_in
            /\ known_users' = {r.user_id : r \in sess.dim_user}
            /\ fed' = NoFed
            /\ loaded_count' = 0
            /\ scenario_key_cache' = EmptyCache
            /\ user_key_cache' = EmptyCache
            /\ user_stats' = NoStats
            /\ pc' = "loop"
       ELSE /\ pc' = IF job = "run_diagnostics" THEN "done" ELSE "update_watermark"
            /\ UNCHANGED <<loader, loader_locals, n_prev, known_users>>
    /\ UNCHANGED <<job, full_load, since_hours, since, end_time, extraction_cutoff,
                   db0, bulk, returned, clock, db, sess, user_key_seq, failed_at>>
    /\ UNCHANGED fn_vars

\* update_watermark(..., status="success") in the session's transaction.  The
\* loads have taken some time; the job's datetime.now() and the one inside
\* update_watermark follow each other at once and read the same instant.
UpdateWatermark ==
    /\ pc = "update_watermark"
    /\ \E now \in clock..MaxClock :
        /\ sess' = [sess EXCEPT !.etl_watermark =
                        update_watermark(@, JobTable, WatermarkInstant(now),
                                         WatermarkRows, "success", now)]
        /\ clock' = now
    /\ pc' = "run_commit"
    /\ UNCHANGED <<job, full_load, since_hours, loader, since, end_time,
                   extraction_cutoff, db, db0, user_key_seq, loader_locals,
                   returned, n_prev, known_users, failed_at, bulk>>
    /\ UNCHANGED fn_vars

\* reporting_session.commit() after update_watermark; the job returns.
RunCommit ==
    /\ pc = "run_commit"
    /\ db' = Commit(db, sess)
    /\ sess' = Commit(db, sess)
    /\ pc' = "done"
    /\ UNCHANGED <<run_vars, loader, loader_locals, user_key_seq, known_users, failed_at>>
    /\ UNCHANGED fn_vars

\* Any statement inside the try block raises: rollback, re-raise.
Raise ==
    /\ pc \in Running
    /\ Fail
    /\ UNCHANGED <<run_vars, loader, loader_locals, user_key_seq, known_users>>
    /\ UNCHANGED fn_vars

\* The process dies: nothing more is committed.  `sess` keeps what the dead
\* session held; only `db` survives.
Crash ==
    /\ pc \in Running
    /\ pc' = "crashed"
    /\ failed_at' = pc
    /\ UNCHANGED <<run_vars, db, sess, loader, loader_locals, user_key_seq, known_users>>
    /\ UNCHANGED fn_vars

FirstLoader(j) ==
    CASE j = "audit_trail" -> "state_changes"
      [] j = "cloudwatch" -> "cloudwatch_logs"
      [] j = "run_diagnostics" -> "run_diagnostics"

InitRun(store) ==
    /\ clock = 0
    /\ pc = "start"
    /\ loader = FirstLoader(job)
    /\ since = {}
    /\ end_time = {}
    /\ extraction_cutoff = {}
    /\ db = store
    /\ sess = store
    /\ db0 = store
    /\ user_key_seq = 13
    /\ fed = NoFed
    /\ loaded_count = 0
    /\ scenario_key_cache = EmptyCache
    /\ user_key_cache = EmptyCache
    /\ user_stats = NoStats
    /\ returned = [l \in Loaders |-> 0]
    /\ n_prev = 0
    /\ known_users = {r.user_id : r \in store.dim_user}
    /\ failed_at = "none"

\* No extractor or transformer call is under check.
ReconIdle ==
    /\ fc_scenario = <<>>
    /\ arg_since = NoInstant
    /\ arg_scenario_ids = {}
    /\ scenarios = <<>>
    /\ n_yielded = 0
    /\ transitions = <<>>

SeqIdle ==
    /\ node_data_records = <<>>
    /\ node_sequences = NoSequences
    /\ changes = <<>>

JourneyIdle ==
    /\ journey_args = NoStreams
    /\ timeline = <<>>

DiffIdle ==
    /\ diff_args = [scenario_id |-> "s1", target_run_id |-> 0,
                    all_runs |-> <<>>, input_changes |-> <<>>]
    /\ diff_result = [pending |-> TRUE]

SessionIdle ==
    /\ session_args = [user_actions |-> <<>>, session_gap_minutes |-> DefaultSessionGap]
    /\ actions = <<>>
    /\ n_grouped = 0
    /\ current_session = <<>>
    /\ sessions = <<>>

ActionsIdle ==
    /\ fc_scenario_node_data = <<>>
    /\ fc_scenario_run = <<>>
    /\ yielded_actions = <<>>

ConcIdle ==
    /\ shared_db = [dim_user |-> {}, fact_rows |-> <<>>, etl_watermark |-> {}]
    /\ loader_proc = <<>>
    /\ shared_user_key_seq = 13

MainIdle ==
    /\ cli_args = [full |-> FALSE, incremental |-> FALSE, scenario_id |-> NULL,
                   cloudwatch_days |-> {}, environment |-> "dev",
                   mock_cloudwatch |-> FALSE]
    /\ main_calls = <<>>

\* No job runs.
EtlIdle ==
    /\ bulk = "none"
    /\ job = "audit_trail"
    /\ full_load = TRUE
    /\ since_hours = 0
    /\ InitRun(Store({}, {}, {}))

\* main(): --full | --incremental | --scenario-id, and/or --cloudwatch-days.
\* Short extracted lists of varied records.
InitVaried ==
    /\ bulk = "none"
    /\ job \in Jobs
    /\ \E mode \in {"full", "incremental", "scenario"} :
        /\ full_load = (job = "audit_trail" /\ mode = "full")
        /\ since_hours = IF job = "audit_trail" /\ mode = "incremental"
                         THEN IncrementalHours ELSE 0
    /\ \E ids \in {{}, {"s1"}, {"s1", "s2"}},
          users \in {{}, {"u2"}, {"u1", "u2"}},
          wm \in {{}, {PriorWatermark(tn) : tn \in TableNames}} :
        InitRun(Store(ids, users, wm))

\* One loader is fed a long list of uniform records.
InitBulk ==
    /\ bulk \in Loaders
    /\ job = CASE bulk \in {"state_changes", "user_actions"} -> "audit_trail"
               [] bulk = "cloudwatch_logs" -> "cloudwatch"
               [] bulk = "run_diagnostics" -> "run_diagnostics"
    /\ full_load = (job = "audit_trail")
    /\ since_hours = 0
    /\ InitRun(Store({"s1"}, {}, {}))

Next ==
    \/ Begin
    \/ Extract
    \/ LoadStateChange
    \/ LoadUserAction
    \/ LoadCloudWatchLog
    \/ LoadRunDiagnostic
    \/ BatchCommit
    \/ EndOfInput
    \/ FinalCommit
    \/ Return
    \/ UpdateWatermark
    \/ RunCommit
    \/ Raise
    \/ Crash

Init ==
    /\ InitVaried \/ InitBulk
    /\ fpc = "idle" /\ ReconIdle /\ SeqIdle /\ JourneyIdle /\ DiffIdle /\ SessionIdle /\ ActionsIdle /\ ConcIdle /\ MainIdle

Spec == Init /\ [][Next]_vars

\* ------------------------------------------ state-transition reconstructor
\* extract_scenario_state_changes over a source table of one scenario row.
Instants == 1..MaxT
Statuses == {"draft", "submitted", "locked", "withdrawn", "deleted"}

\* The rows fc_scenario can hold: created_at and updated_at are NOT NULL, the
\* other lifecycle timestamps are nullable.
FcScenarioRows ==
    [id : {"s1"}, status : Statuses, created_at : Instants, updated_at : Instants,
     submitted_at : {NoInstant} \cup Instants, locked_at : {NoInstant} \cup Instants,
     withdraw_at : {NoInstant} \cup Instants, delete_at : {NoInstant} \cup Instants]

\* list.sort(key=lambda x: x[k]) is stable: an element goes after every
\* element whose key is not greater.
InsertSorted(sorted, x, k) ==
    LET n == Cardinality({i \in 1..Len(sorted) : sorted[i][k] <= x[k]})
    IN SubSeq(sorted, 1, n) \o <<x>> \o SubSeq(sorted, n + 1, Len(sorted))

StableSort_Unsorted(seq, k) == seq

RECURSIVE StableSort(_, _)
StableSort(seq, k) ==
    IF Len(seq) = 0 THEN <<>>
    ELSE InsertSorted(StableSort(SubSeq(seq, 1, Len(seq) - 1), k), seq[Len(seq)], k)

\* or_(created_at >= since, ..., updated_at >= since): a NULL column compares
\* to NULL, which is not true.
SinceMatches(scenario, t) ==
    \E col \in {"created_at", "submitted_at", "locked_at", "withdraw_at",
                "delete_at", "updated_at"} :
        scenario[col] # NoInstant /\ scenario[col] >= t

\* The WHERE clause; `if since:` and `if scenario_ids:` leave the filter out
\* for None, and for an empty list of ids.
Selected(scenario, since_arg, ids) ==
    /\ since_arg # NoInstant => SinceMatches(scenario, since_arg)
    /\ ids # {} => scenario.id \in ids

Transition(scenario, previous_status, new_status, transition_type, changed_at) ==
    [scenario_id |-> scenario.id, previous_status |-> previous_status,
     new_status |-> new_status, transition_type |-> transition_type,
     changed_at |-> changed_at]

CreatedTransition_Unguarded(scenario) ==
    <<Transition(scenario, NULL, "draft", "created", scenario.created_at)>>

CreatedTransition(scenario) ==
    IF scenario.created_at # NoInstant
    THEN <<Transition(scenario, NULL, "draft", "created", scenario.created_at)>>
    ELSE <<>>

SubmittedTransition_FromStatus(scenario) ==
    IF scenario.submitted_at # NoInstant
    THEN <<Transition(scenario, scenario.status, "submitted", "submitted",
                      scenario.submitted_at)>>
    ELSE <<>>

SubmittedTransition(scenario) ==
    IF scenario.submitted_at # NoInstant
    THEN <<Transition(scenario, "draft", "submitted", "submitted",
                      scenario.submitted_at)>>
    ELSE <<>>

LockedTransition(scenario) ==
    IF scenario.locked_at # NoInstant
    THEN <<Transition(scenario, "submitted", "locked", "locked", scenario.locked_at)>>
    ELSE <<>>

WithdrawnTransition_NullPrevious(scenario) ==
    IF scenario.withdraw_at # NoInstant
    THEN <<Transition(scenario, NULL, "withdrawn", "withdrawn", scenario.withdraw_at)>>
    ELSE <<>>

WithdrawnTransition(scenario) ==
    IF scenario.withdraw_at # NoInstant
    THEN <<Transition(scenario,
                      IF scenario.status # "withdrawn" THEN scenario.status
                                                       ELSE "submitted",
                      "withdrawn", "withdrawn", scenario.withdraw_at)>>
    ELSE <<>>

DeletedTransition_FromStatus(scenario) ==
    IF scenario.delete_at # NoInstant
    THEN <<Transition(scenario, scenario.status, "deleted", "deleted", scenario.delete_at)>>
    ELSE <<>>

DeletedTransition(scenario) ==
    IF scenario.delete_at # NoInstant
    THEN <<Transition(scenario,
                      IF scenario.status # "deleted" THEN scenario.status ELSE "draft",
                      "deleted", "deleted", scenario.delete_at)>>
    ELSE <<>>

\* The loop body: the scenario's transitions, appended milestone by milestone
\* and then sorted by changed_at.
ScenarioTransitions(scenario) ==
    StableSort(CreatedTransition(scenario) \o SubmittedTransition(scenario)
                   \o LockedTransition(scenario) \o WithdrawnTransition(scenario)
                   \o DeletedTransition(scenario),
               "changed_at")

\* session.execute(query).scalars().all()
SelectScenarios ==
    /\ fpc = "query"
    /\ LET InResult(scenario) == Selected(scenario, arg_since, arg_scenario_ids)
       IN scenarios' = SelectSeq(fc_scenario, InResult)
    /\ fpc' = "yield"
    /\ UNCHANGED <<fc_scenario, arg_since, arg_scenario_ids, n_yielded, transitions>>
    /\ UNCHANGED <<etl_vars, seq_vars, journey_vars, diff_vars,
                   session_vars,
                   actions_vars,
                   conc_vars,
                   main_vars>>

\* One iteration of `for scenario in scenarios`, its yields included.
YieldTransitions ==
    /\ fpc = "yield"
    /\ n_yielded < Len(scenarios)
    /\ transitions' = transitions \o ScenarioTransitions(scenarios[n_yielded + 1])
    /\ n_yielded' = n_yielded + 1
    /\ UNCHANGED <<fpc, fc_scenario, arg_since, arg_scenario_ids, scenarios>>
    /\ UNCHANGED <<etl_vars, seq_vars, journey_vars, diff_vars,
                   session_vars,
                   actions_vars,
                   conc_vars,
                   main_vars>>

\* The generator is exhausted.
StopIteration ==
    /\ fpc = "yield"
    /\ n_yielded = Len(scenarios)
    /\ fpc' = "exhausted"
    /\ UNCHANGED <<recon_vars, etl_vars, seq_vars, journey_vars, diff_vars,
                   session_vars,
                   actions_vars,
                   conc_vars,
                   main_vars>>

InitRecon ==
    /\ EtlIdle /\ SeqIdle /\ JourneyIdle /\ DiffIdle /\ SessionIdle /\ ActionsIdle /\ ConcIdle /\ MainIdle
    /\ fpc = "query"
    /\ fc_scenario \in {<<row>> : row \in FcScenarioRows}
    /\ arg_since \in {NoInstant} \cup Instants
    /\ arg_scenario_ids \in {{}, {"s1"}, {"s2"}}
    /\ scenarios = <<>>
    /\ n_yielded = 0
    /\ transitions = <<>>

NextRecon ==
    \/ SelectScenarios
    \/ YieldTransitions
    \/ StopIteration

SpecRecon == InitRecon /\ [][NextRecon]_vars

\* The same call over a row as the loop body's guards admit it: the function
\* tests created_at like the other four timestamps, and the rows come from a
\* store this program reads but does not create, so created_at may be unset.
FcScenarioRowsAnyMilestones ==
    [id : {"s1"}, status : Statuses, created_at : {NoInstant} \cup Instants,
     updated_at : Instants,
     submitted_at : {NoInstant} \cup Instants, locked_at : {NoInstant} \cup Instants,
     withdraw_at : {NoInstant} \cup Instants, delete_at : {NoInstant} \cup Instants]

InitReconAny ==
    /\ EtlIdle /\ SeqIdle /\ JourneyIdle /\ DiffIdle /\ SessionIdle /\ ActionsIdle /\ ConcIdle /\ MainIdle
    /\ fpc = "query"
    /\ fc_scenario \in {<<row>> : row \in FcScenarioRowsAnyMilestones}
    /\ arg_since \in {NoInstant} \cup Instants
    /\ arg_scenario_ids \in {{}, {"s1"}, {"s2"}}
    /\ scenarios = <<>>
    /\ n_yielded = 0
    /\ transitions = <<>>

SpecReconAny == InitReconAny /\ [][NextRecon]_vars

\* -------------------------------------------------- input-change sequencer
\* extract_input_change_sequence(session, scenario_id) for scenario "s1".

\* What the query can return: the fc_scenario_node_data rows of the scenario
\* in created_at order, rows of one instant in the order the database picks.
\* A row's id is its place in the result.
NodeDataResults ==
    UNION {{[i \in 1..n |-> [id |-> i, model_node_id |-> r[i].model_node_id,
                             created_at |-> r[i].created_at]] :
               r \in {q \in [1..n -> [model_node_id : NodeIds, created_at : Instants]] :
                         \A i \in 1..(n - 1) : q[i].created_at <= q[i + 1].created_at}} :
           n \in 0..MaxNodeData}

NextSequence_Global(sequences, node_id) == SumOver(sequences, NodeIds) + 1

\* node_sequences.get(node_id, 0) + 1
NextSequence(sequences, node_id) == sequences[node_id] + 1

Change(record, change_sequence) ==
    [scenario_id |-> "s1", node_data_id |-> record.id,
     model_node_id |-> record.model_node_id, changed_at |-> record.created_at,
     is_duplicate |-> FALSE, change_sequence |-> change_sequence]

\* One iteration of `for record in node_data_records`.
AppendChange ==
    /\ fpc = "sequence"
    /\ Len(changes) < Len(node_data_records)
    /\ LET record == node_data_records[Len(changes) + 1]
           node_id == record.model_node_id
       IN /\ node_sequences' =
                 [node_sequences EXCEPT ![node_id] = NextSequence(node_sequences, node_id)]
          /\ changes' = Append(changes, Change(record, node_sequences'[node_id]))
    /\ UNCHANGED <<fpc, node_data_records>>
    /\ UNCHANGED <<etl_vars, recon_vars, journey_vars, diff_vars,
                   session_vars,
                   actions_vars,
                   conc_vars,
                   main_vars>>

\* return changes
ReturnChanges ==
    /\ fpc = "sequence"
    /\ Len(changes) = Len(node_data_records)
    /\ fpc' = "return"
    /\ UNCHANGED <<seq_vars, etl_vars, recon_vars, journey_vars, diff_vars,
                   session_vars,
                   actions_vars,
                   conc_vars,
                   main_vars>>

InitSeq ==
    /\ EtlIdle /\ ReconIdle /\ JourneyIdle /\ DiffIdle /\ SessionIdle /\ ActionsIdle /\ ConcIdle /\ MainIdle
    /\ fpc = "sequence"
    /\ node_data_records \in NodeDataResults
    /\ node_sequences = NoSequences
    /\ changes = <<>>

NextSeq ==
    \/ AppendChange
    \/ ReturnChanges

SpecSeq == InitSeq /\ [][NextSeq]_vars

\* --------------------------------------------------------- timeline merger
\* reconstruct_user_journey(state_changes, user_actions, input_changes, runs)
SeqsUpTo(S, n) == UNION {[1..k -> S] : k \in 0..n}

StateChangeInputs == [changed_at : Instants]
UserActionInputs == [action_timestamp : Instants]
InputChangeInputs == [changed_at : Instants]
\* run.get("run_ended_at") is None for a run that has not ended, and a run
\* ends no sooner than it starts; a failed run has a fail_reason, a successful
\* one has None.
RunInputs ==
    {r \in [run_started_at : Instants, run_ended_at : {NoInstant} \cup Instants,
            run_status : {"success", "failed"}, fail_reason : {NULL, "boom"}] :
        /\ (r.fail_reason # NULL) <=> (r.run_status = "failed")
        /\ r.run_ended_at = NoInstant \/ r.run_ended_at >= r.run_started_at}

Event(event_timestamp, event_type) ==
    [event_timestamp |-> event_timestamp, event_type |-> event_type]

StateChangeEvents(state_changes) ==
    [i \in 1..Len(state_changes) |-> Event(state_changes[i].changed_at, "state_change")]

UserActionEvents(user_actions) ==
    [i \in 1..Len(user_actions) |->
        Event(user_actions[i].action_timestamp, "user_action")]

InputChangeEvents(input_changes) ==
    [i \in 1..Len(input_changes) |-> Event(input_changes[i].changed_at, "input_change")]

\* dict.get(key): None for a key the dict does not have.
DictGet(dict, key) == IF key \in DOMAIN dict THEN dict[key] ELSE NULL

\* The run_started event and its event_metadata.
RunStartedEvent(run) ==
    [event_timestamp |-> run.run_started_at, event_type |-> "run_started",
     event_metadata |-> [run_status |-> run.run_status]]

\* The run_completed event and its event_metadata.
RunCompletedEvent(run) ==
    [event_timestamp |-> run.run_ended_at, event_type |-> "run_completed",
     event_metadata |-> [run_status |-> run.run_status,
                         duration_seconds |-> DictGet(run, "duration_seconds"),
                         fail_reason |-> DictGet(run, "fail_reason")]]

CompletedEvents_Always(run) == <<RunCompletedEvent(run)>>

\* `if run.get("run_ended_at")`: the completion is appended for a run that ended.
CompletedEvents(run) ==
    IF run.run_ended_at # NoInstant THEN <<RunCompletedEvent(run)>> ELSE <<>>

\* A run appends its start and then its completion, if any.
RECURSIVE RunEvents(_)
RunEvents(runs) ==
    IF Len(runs) = 0 THEN <<>>
    ELSE LET run == Head(runs) IN
         <<RunStartedEvent(run)>> \o CompletedEvents(run) \o RunEvents(Tail(runs))

\* The four `for` loops that append to timeline.
MergeStreams ==
    /\ fpc = "merge"
    /\ timeline' = StateChangeEvents(journey_args.state_changes)
                       \o UserActionEvents(journey_args.user_actions)
                       \o InputChangeEvents(journey_args.input_changes)
                       \o RunEvents(journey_args.runs)
    /\ fpc' = "sort"
    /\ UNCHANGED <<journey_args, etl_vars, recon_vars, seq_vars, diff_vars,
                   session_vars,
                   actions_vars,
                   conc_vars,
                   main_vars>>

\* timeline.sort(key=lambda x: x["event_timestamp"]); return timeline
SortTimeline ==
    /\ fpc = "sort"
    /\ timeline' = StableSort(timeline, "event_timestamp")
    /\ fpc' = "return"
    /\ UNCHANGED <<journey_args, etl_vars, recon_vars, seq_vars, diff_vars,
                   session_vars,
                   actions_vars,
                   conc_vars,
                   main_vars>>

InitJourney ==
    /\ EtlIdle /\ ReconIdle /\ SeqIdle /\ DiffIdle /\ SessionIdle /\ ActionsIdle /\ ConcIdle /\ MainIdle
    /\ fpc = "merge"
    /\ \E a \in SeqsUpTo(StateChangeInputs, MaxEvents) :
       \E b \in SeqsUpTo(UserActionInputs, MaxEvents - Len(a)) :
       \E c \in SeqsUpTo(InputChangeInputs, MaxEvents - Len(a) - Len(b)) :
       \E k \in 0..MaxJourneyRuns :
       \E d \in SeqsUpTo(RunInputs, IF k <= MaxEvents - Len(a) - Len(b) - Len(c)
                                     THEN k ELSE 0) :
           journey_args = [state_changes |-> a, user_actions |-> b,
                           input_changes |-> c, runs |-> d]
    /\ timeline = <<>>

NextJourney ==
    \/ MergeStreams
    \/ SortTimeline

SpecJourney == InitJourney /\ [][NextJourney]_vars

\* ------------------------------------------------------- run-context differ
\* identify_run_context_changes(scenario_id, target_run_id, all_runs,
\* input_changes) for scenario "s1".
RunInstants == 1..MaxRunT
ChangedNodeIds == {"X", "Y"}

\* A run of the scenario, successful or failed, or a successful run of
\* another scenario.
RunInputRows ==
    {r \in [scenario_id : ScenarioIds, run_started_at : RunInstants,
            run_status : {"success", "failed"}] :
        r.scenario_id = "s1" \/ r.run_status = "success"}

\* all_runs, "sorted by time" as the docstring has it; a run's id is its
\* place in the list.
RunLists ==
    [n \in 0..MaxDiffInputs |->
        {[i \in 1..n |-> [run_id |-> i, scenario_id |-> q[i].scenario_id,
                          run_started_at |-> q[i].run_started_at,
                          run_status |-> q[i].run_status]] :
            q \in {p \in [1..n -> RunInputRows] :
                      \A i \in 1..(n - 1) :
                          p[i].run_started_at <= p[i + 1].run_started_at}}]

\* input_changes, in the order of changed_at in which the sequencer returns
\* them.
InputChangeLists ==
    [n \in 0..MaxDiffInputs |->
        {q \in [1..n -> [model_node_id : ChangedNodeIds, changed_at : RunInstants]] :
            \A i \in 1..(n - 1) : q[i].changed_at <= q[i + 1].changed_at}]

\* [r for r in all_runs if r["scenario_id"] == scenario_id], then sorted by
\* run_started_at
ScenarioRuns(scenario_id, all_runs) ==
    LET Own(r) == r.scenario_id = scenario_id
    IN StableSort(SelectSeq(all_runs, Own), "run_started_at")

\* next((r for r in scenario_runs if r["run_id"] == target_run_id), None):
\* the place of the first match, 0 for None
TargetRun(scenario_runs, target_run_id) ==
    LET matches == {i \in 1..Len(scenario_runs) :
                       scenario_runs[i].run_id = target_run_id}
    IN IF matches = {} THEN 0
       ELSE CHOOSE i \in matches : \A j \in matches : i <= j

PreviousSuccessful_OrEqual(scenario_runs, target_run) ==
    LET found == {i \in 1..Len(scenario_runs) :
                     /\ scenario_runs[i].run_started_at <= target_run.run_started_at
                     /\ scenario_runs[i].run_status = "success"}
    IN IF found = {} THEN 0
       ELSE CHOOSE i \in found : \A j \in found : i >= j

\* The scan over reversed(scenario_runs): the place of the last run that
\* started before the target and succeeded, 0 for None.
PreviousSuccessful(scenario_runs, target_run) ==
    LET found == {i \in 1..Len(scenario_runs) :
                     /\ scenario_runs[i].run_started_at < target_run.run_started_at
                     /\ scenario_runs[i].run_status = "success"}
    IN IF found = {} THEN 0
       ELSE CHOOSE i \in found : \A j \in found : i >= j

ChangesBetween_Closed(input_changes, previous_successful, target_run) ==
    LET Between(change) ==
            /\ previous_successful.run_started_at <= change.changed_at
            /\ change.changed_at <= target_run.run_started_at
    IN SelectSeq(input_changes, Between)

\* previous["run_started_at"] < change["changed_at"] <= target["run_started_at"]
ChangesBetween(input_changes, previous_successful, target_run) ==
    LET Between(change) ==
            /\ previous_successful.run_started_at < change.changed_at
            /\ change.changed_at <= target_run.run_started_at
    IN SelectSeq(input_changes, Between)

RunSummary(run) ==
    [run_id |-> run.run_id, status |-> run.run_status, started_at |-> run.run_started_at]

\* The returned dict, one of three shapes.
identify_run_context_changes(scenario_id, target_run_id, all_runs, input_changes) ==
    LET scenario_runs == ScenarioRuns(scenario_id, all_runs)
        t == TargetRun(scenario_runs, target_run_id)
    IN IF t = 0 THEN [error |-> "Target run not found"]
       ELSE
       LET target_run == scenario_runs[t]
           p == PreviousSuccessful(scenario_runs, target_run)
       IN IF p = 0
          THEN [target_run |-> target_run, previous_successful_run |-> NULL,
                input_changes_between |-> <<>>,
                message |-> "No previous successful run found"]
          ELSE
          LET previous_successful == scenario_runs[p]
              changes_between ==
                  ChangesBetween(input_changes, previous_successful, target_run)
          IN [target_run |-> RunSummary(target_run),
              previous_successful_run |-> RunSummary(previous_successful),
              input_changes_between |-> Len(changes_between),
              changed_node_ids |->
                  {changes_between[i].model_node_id : i \in 1..Len(changes_between)},
              time_gap_seconds |->
                  target_run.run_started_at - previous_successful.run_started_at,
              changes_detail |->
                  [i \in 1..Len(changes_between) |->
                      [node_id |-> changes_between[i].model_node_id,
                       changed_at |-> changes_between[i].changed_at]]]

IdentifyRunContextChanges ==
    /\ fpc = "diff"
    /\ diff_result' = identify_run_context_changes(
                          diff_args.scenario_id, diff_args.target_run_id,
                          diff_args.all_runs, diff_args.input_changes)
    /\ fpc' = "return"
    /\ UNCHANGED <<diff_args, etl_vars, recon_vars, seq_vars, journey_vars,
                   session_vars,
                   actions_vars,
                   conc_vars,
                   main_vars>>

InitDiff ==
    /\ EtlIdle /\ ReconIdle /\ SeqIdle /\ JourneyIdle /\ SessionIdle /\ ActionsIdle /\ ConcIdle /\ MainIdle
    /\ fpc = "diff"
    /\ \E n \in 0..MaxDiffInputs :
       \E m \in 0..(MaxDiffInputs - n) :
       \E all_runs \in RunLists[n] :
       \E input_changes \in InputChangeLists[m] :
       \E target_run_id \in 0..n :
           diff_args = [scenario_id |-> "s1", target_run_id |-> target_run_id,
                        all_runs |-> all_runs, input_changes |-> input_changes]
    /\ diff_result = [pending |-> TRUE]

NextDiff == IdentifyRunContextChanges

SpecDiff == InitDiff /\ [][NextDiff]_vars

\* ------------------------------------------------------ session segmentation
\* group_actions_by_session(user_actions, session_gap_minutes); timestamps are
\* minutes, on a grid of five.
SessionMinutes == {5 * k : k \in 0..MaxTicks}
SessionActionInputs == [user_id : UserIds, action_timestamp : SessionMinutes]

\* (x["user_id"], x["action_timestamp"]) <= (y["user_id"], y["action_timestamp"])
ActionKeyLeq(x, y) ==
    IF x.user_id = y.user_id THEN x.action_timestamp <= y.action_timestamp
    ELSE x.user_id = "u1"

InsertAction(sorted, x) ==
    LET n == Cardinality({i \in 1..Len(sorted) : ActionKeyLeq(sorted[i], x)})
    IN SubSeq(sorted, 1, n) \o <<x>> \o SubSeq(sorted, n + 1, Len(sorted))

\* sorted(user_actions, key=lambda x: (x["user_id"], x["action_timestamp"]))
RECURSIVE SortedByUserAndTime(_)
SortedByUserAndTime(user_actions) ==
    IF Len(user_actions) = 0 THEN <<>>
    ELSE InsertAction(SortedByUserAndTime(SubSeq(user_actions, 1, Len(user_actions) - 1)),
                      user_actions[Len(user_actions)])

StartsNewSession_AtGap(current, action, session_gap) ==
    \/ Len(current) = 0
    \/ current[1].user_id # action.user_id
    \/ action.action_timestamp - current[1].last_action_at >= session_gap

\* current_session is None, or of another user, or the gap exceeds the
\* threshold; current_session is <<>> for None, else one record.
StartsNewSession(current, action, session_gap) ==
    \/ Len(current) = 0
    \/ current[1].user_id # action.user_id
    \/ action.action_timestamp - current[1].last_action_at > session_gap

NewSession(action) ==
    [user_id |-> action.user_id, started_at |-> action.action_timestamp,
     last_action_at |-> action.action_timestamp, action_count |-> 0]

\* The session record appended for a finished current_session.
FinalizedSession(current) ==
    [user_id |-> current.user_id, started_at |-> current.started_at,
     ended_at |-> current.last_action_at,
     duration_minutes |-> current.last_action_at - current.started_at,
     action_count |-> current.action_count]

\* if not user_actions: return []
ReturnNoSessions ==
    /\ fpc = "group"
    /\ Len(session_args.user_actions) = 0
    /\ fpc' = "return"
    /\ UNCHANGED <<session_vars, etl_vars, recon_vars, seq_vars, journey_vars, diff_vars,
                   actions_vars,
                   conc_vars,
                   main_vars>>

SortActions ==
    /\ fpc = "group"
    /\ Len(session_args.user_actions) > 0
    /\ actions' = SortedByUserAndTime(session_args.user_actions)
    /\ fpc' = "group_loop"
    /\ UNCHANGED <<session_args, n_grouped, current_session, sessions>>
    /\ UNCHANGED <<etl_vars, recon_vars, seq_vars, journey_vars, diff_vars,
                   actions_vars,
                   conc_vars,
                   main_vars>>

\* One iteration of `for action in actions`.
GroupAction ==
    /\ fpc = "group_loop"
    /\ n_grouped < Len(actions)
    /\ LET action == actions[n_grouped + 1]
           starts == StartsNewSession(current_session, action,
                                      session_args.session_gap_minutes)
           current == IF starts THEN NewSession(action) ELSE current_session[1]
       IN /\ sessions' = IF starts /\ Len(current_session) > 0
                         THEN Append(sessions, FinalizedSession(current_session[1]))
                         ELSE sessions
          /\ current_session' =
                 <<[current EXCEPT !.action_count = @ + 1,
                                   !.last_action_at = action.action_timestamp]>>
    /\ n_grouped' = n_grouped + 1
    /\ UNCHANGED <<fpc, session_args, actions>>
    /\ UNCHANGED <<etl_vars, recon_vars, seq_vars, journey_vars, diff_vars,
                   actions_vars,
                   conc_vars,
                   main_vars>>

\* The last session is finalized; return sessions.
FinalizeLastSession ==
    /\ fpc = "group_loop"
    /\ n_grouped = Len(actions)
    /\ sessions' = IF Len(current_session) > 0
                   THEN Append(sessions, FinalizedSession(current_session[1]))
                   ELSE sessions
    /\ fpc' = "return"
    /\ UNCHANGED <<session_args, actions, n_grouped, current_session>>
    /\ UNCHANGED <<etl_vars, recon_vars, seq_vars, journey_vars, diff_vars,
                   actions_vars,
                   conc_vars,
                   main_vars>>

InitSession ==
    /\ EtlIdle /\ ReconIdle /\ SeqIdle /\ JourneyIdle /\ DiffIdle /\ ActionsIdle /\ ConcIdle /\ MainIdle
    /\ fpc = "group"
    /\ \E user_actions \in SeqsUpTo(SessionActionInputs, MaxActions) :
           session_args = [user_actions |-> user_actions,
                           session_gap_minutes |-> DefaultSessionGap]
    /\ actions = <<>>
    /\ n_grouped = 0
    /\ current_session = <<>>
    /\ sessions = <<>>

NextSession ==
    \/ ReturnNoSessions
    \/ SortActions
    \/ GroupAction
    \/ FinalizeLastSession

SpecSession == InitSession /\ [][NextSession]_vars

\* ---------------------------------------------------- user-action extractor
\* extract_user_actions(session, since, user_ids, scenario_ids) over one
\* scenario row, at most one input edit and at most one run of scenario "s1".
RequestIds == {"req"}

\* The columns of fc_scenario the extractor reads; submitted_req_id is
\* nullable, created_req_id and updated_req_id are not.
FcScenarioActionRows ==
    [id : {"s1"}, created_at : Instants, updated_at : Instants,
     submitted_at : {NoInstant} \cup Instants, locked_at : {NoInstant} \cup Instants,
     created_req_id : RequestIds, updated_req_id : RequestIds,
     submitted_req_id : {NULL} \cup RequestIds]

FcScenarioNodeDataRows ==
    [scenario_id : {"s1"}, created_at : Instants, created_req_id : RequestIds]

\* A run that succeeded, or failed with or without a reason.
FcScenarioRunRows ==
    {r \in [scenario_id : {"s1"}, run_at : Instants, run_req_id : RequestIds,
            run_status : {"success", "failed"}, fail_reason : {NULL, "timeout"}] :
        r.run_status = "success" => r.fail_reason = NULL}

AtMostOne(S) == {<<>>} \cup {<<row>> : row \in S}

\* or_(created_at >= since, updated_at >= since, submitted_at >= since,
\*     locked_at >= since)
ActionSinceMatches(scenario, t) ==
    \E col \in {"created_at", "updated_at", "submitted_at", "locked_at"} :
        scenario[col] # NoInstant /\ scenario[col] >= t

Cutoff_Ignored(since_arg, t) == TRUE

\* `not since or t >= since`, and the WHERE clauses `created_at >= since`,
\* `run_at >= since` that `if since:` adds
Cutoff(since_arg, t) == since_arg = NoInstant \/ t >= since_arg

InScenarioIds(ids, scenario_id) == ids = {} \/ scenario_id \in ids

UserAction(scenario_id, action_timestamp, action_type, correlation_id, success, fail_reason) ==
    [scenario_id |-> scenario_id, action_timestamp |-> action_timestamp,
     action_type |-> action_type, correlation_id |-> correlation_id,
     success |-> success, action_details |-> [fail_reason |-> fail_reason]]

\* The three yields of one iteration of `for scenario in scenarios`.
ScenarioActions(scenario, since_arg) ==
    (IF scenario.created_at # NoInstant /\ Cutoff(since_arg, scenario.created_at)
     THEN <<UserAction(scenario.id, scenario.created_at, "create_scenario",
                       scenario.created_req_id, TRUE, NULL)>>
     ELSE <<>>)
    \o (IF /\ scenario.updated_at # NoInstant
           /\ scenario.updated_at # scenario.created_at
           /\ Cutoff(since_arg, scenario.updated_at)
        THEN <<UserAction(scenario.id, scenario.updated_at, "update_scenario",
                          scenario.updated_req_id, TRUE, NULL)>>
        ELSE <<>>)
    \o (IF scenario.submitted_at # NoInstant /\ Cutoff(since_arg, scenario.submitted_at)
        THEN <<UserAction(scenario.id, scenario.submitted_at, "submit_scenario",
                          scenario.submitted_req_id, TRUE, NULL)>>
        ELSE <<>>)

InputAction(input_data) ==
    UserAction(input_data.scenario_id, input_data.created_at, "edit_input_data",
               input_data.created_req_id, TRUE, NULL)

RunAction(run) ==
    UserAction(run.scenario_id, run.run_at, "run_forecast", run.run_req_id,
               run.run_status = "success",
               IF run.run_status = "failed" THEN run.fail_reason ELSE NULL)

RECURSIVE Flatten(_)
Flatten(lists) == IF Len(lists) = 0 THEN <<>> ELSE Head(lists) \o Flatten(Tail(lists))

\* 1. Scenario management actions: the query and its loop.
YieldScenarioActions ==
    /\ fpc = "scenario_query"
    /\ LET InResult(scenario) ==
               /\ arg_since # NoInstant => ActionSinceMatches(scenario, arg_since)
               /\ InScenarioIds(arg_scenario_ids, scenario.id)
           result == SelectSeq(fc_scenario, InResult)
       IN yielded_actions' = yielded_actions \o
              Flatten([i \in 1..Len(result) |-> ScenarioActions(result[i], arg_since)])
    /\ fpc' = "input_query"
    /\ UNCHANGED <<fc_scenario_node_data, fc_scenario_run, recon_vars>>
    /\ UNCHANGED <<etl_vars, seq_vars, journey_vars, diff_vars, session_vars,
                   conc_vars,
                   main_vars>>

\* 2. Input data change actions.
YieldInputActions ==
    /\ fpc = "input_query"
    /\ LET InResult(input_data) ==
               /\ Cutoff(arg_since, input_data.created_at)
               /\ InScenarioIds(arg_scenario_ids, input_data.scenario_id)
           result == SelectSeq(fc_scenario_node_data, InResult)
       IN yielded_actions' = yielded_actions \o
              [i \in 1..Len(result) |-> InputAction(result[i])]
    /\ fpc' = "run_query"
    /\ UNCHANGED <<fc_scenario_node_data, fc_scenario_run, recon_vars>>
    /\ UNCHANGED <<etl_vars, seq_vars, journey_vars, diff_vars, session_vars,
                   conc_vars,
                   main_vars>>

\* 3. Forecast run actions; then the generator is exhausted.
YieldRunActions ==
    /\ fpc = "run_query"
    /\ LET InResult(run) ==
               /\ Cutoff(arg_since, run.run_at)
               /\ InScenarioIds(arg_scenario_ids, run.scenario_id)
           result == SelectSeq(fc_scenario_run, InResult)
       IN yielded_actions' = yielded_actions \o
              [i \in 1..Len(result) |-> RunAction(result[i])]
    /\ fpc' = "exhausted"
    /\ UNCHANGED <<fc_scenario_node_data, fc_scenario_run, recon_vars>>
    /\ UNCHANGED <<etl_vars, seq_vars, journey_vars, diff_vars, session_vars,
                   conc_vars,
                   main_vars>>

InitActions ==
    /\ EtlIdle /\ SeqIdle /\ JourneyIdle /\ DiffIdle /\ SessionIdle /\ ConcIdle /\ MainIdle
    /\ fpc = "scenario_query"
    /\ fc_scenario \in {<<row>> : row \in FcScenarioActionRows}
    /\ fc_scenario_node_data \in AtMostOne(FcScenarioNodeDataRows)
    /\ fc_scenario_run \in AtMostOne(FcScenarioRunRows)
    /\ arg_since \in {NoInstant} \cup Instants
    /\ arg_scenario_ids \in {{}, {"s1"}, {"s2"}}
    /\ scenarios = <<>>
    /\ n_yielded = 0
    /\ transitions = <<>>
    /\ yielded_actions = <<>>

NextActions ==
    \/ YieldScenarioActions
    \/ YieldInputActions
    \/ YieldRunActions

SpecActions == InitActions /\ [][NextActions]_vars

\* ------------------------------------------------------- concurrent loaders
\* Two invocations of the audit-trail job at once, each with its own session
\* on the PostgreSQL reporting store (READ COMMITTED): each loads
\* its records, all of one user id, commits, upserts the watermark of
\* "rca_audit_trail" with its row count and commits.
Procs == {1, 2}

Other(p) == 3 - p

\* dim_user rows the invocation's SELECT sees: the committed ones and its own.
VisibleUsers(p) == shared_db.dim_user \cup loader_proc[p].new_users

\* select(DimUser.user_key).where(DimUser.user_id == user_id).scalar_one_or_none()
ConcSelectUserKey(p, user_id) ==
    LET rows == {r \in VisibleUsers(p) : r.user_id = user_id}
    IN IF rows = {} THEN NoneKey ELSE (CHOOSE r \in rows : TRUE).user_key

ConcFact(p, user_key) == [proc |-> p, changed_by_user_key |-> user_key]

\* One iteration of the loader's loop up to the flush: a cache hit, or the
\* SELECT and, when it finds a row, the fact row.
ConcLoadRecord(p) ==
    LET me == loader_proc[p] IN
    /\ me.pc = "loop"
    /\ me.loaded_count < me.n_records
    /\ IF me.user_key_cache # NoneKey
       THEN loader_proc' = [loader_proc EXCEPT
                ![p].new_facts = Append(@, ConcFact(p, me.user_key_cache)),
                ![p].loaded_count = @ + 1]
       ELSE LET result == ConcSelectUserKey(p, me.user_id) IN
            IF result # NoneKey
            THEN loader_proc' = [loader_proc EXCEPT
                     ![p].user_key_cache = result,
                     ![p].selected = "row",
                     ![p].new_facts = Append(@, ConcFact(p, result)),
                     ![p].loaded_count = @ + 1]
            ELSE loader_proc' = [loader_proc EXCEPT
                     ![p].selected = "none", ![p].pc = "flush"]
    /\ UNCHANGED <<shared_db, shared_user_key_seq>>
    /\ UNCHANGED <<etl_vars, fpc, recon_vars, seq_vars, journey_vars, diff_vars,
                   session_vars, actions_vars,
                   main_vars>>

\* reporting_session.add(new_user); flush(): the INSERT waits while another
\* transaction holds an uncommitted row of the same user_id, and violates the
\* unique constraint on user_id when a committed row has it; the
\* IntegrityError leaves the loader and the job rolls back and re-raises.
ConcFlushNewUser(p) ==
    LET me == loader_proc[p] IN
    /\ me.pc = "flush"
    /\ \A r \in loader_proc[Other(p)].new_users : r.user_id # me.user_id
    /\ IF \E r \in shared_db.dim_user : r.user_id = me.user_id
       THEN /\ loader_proc' = [loader_proc EXCEPT
                    ![p].pc = "failed", ![p].new_users = {}, ![p].new_facts = <<>>]
            /\ UNCHANGED shared_user_key_seq
       ELSE /\ loader_proc' = [loader_proc EXCEPT
                    ![p].new_users = @ \cup {DimUser(shared_user_key_seq, me.user_id)},
                    ![p].user_key_cache = shared_user_key_seq,
                    ![p].new_facts = Append(@, ConcFact(p, shared_user_key_seq)),
                    ![p].loaded_count = @ + 1,
                    ![p].pc = "loop"]
            /\ shared_user_key_seq' = shared_user_key_seq + 1
    /\ UNCHANGED shared_db
    /\ UNCHANGED <<etl_vars, fpc, recon_vars, seq_vars, journey_vars, diff_vars,
                   session_vars, actions_vars,
                   main_vars>>

\* The loader's final commit; it returns loaded_count.
ConcFinalCommit(p) ==
    LET me == loader_proc[p] IN
    /\ me.pc = "loop"
    /\ me.loaded_count = me.n_records
    /\ shared_db' = [shared_db EXCEPT !.dim_user = @ \cup me.new_users,
                                      !.fact_rows = @ \o me.new_facts]
    /\ loader_proc' = [loader_proc EXCEPT ![p].new_users = {}, ![p].new_facts = <<>>,
                                          ![p].pc = "update_watermark"]
    /\ UNCHANGED shared_user_key_seq
    /\ UNCHANGED <<etl_vars, fpc, recon_vars, seq_vars, journey_vars, diff_vars,
                   session_vars, actions_vars,
                   main_vars>>

RowLockFree_NoLocking(p) == TRUE

\* INSERT ... ON CONFLICT DO UPDATE takes the row's lock: it waits while
\* another transaction holds an uncommitted write of the row, then works on
\* the row as committed.
RowLockFree(p) == loader_proc[Other(p)].new_watermark = {}

\* update_watermark(reporting_session, "rca_audit_trail", now, loaded, "success")
ConcUpdateWatermark(p) ==
    LET me == loader_proc[p] IN
    /\ me.pc = "update_watermark"
    /\ RowLockFree(p)
    /\ loader_proc' = [loader_proc EXCEPT
           ![p].new_watermark =
               {r \in update_watermark(shared_db.etl_watermark, "rca_audit_trail",
                                       1, me.loaded_count, "success", 1) :
                   r.table_name = "rca_audit_trail"},
           ![p].pc = "run_commit",
           ![Other(p)].waited = @ \/ loader_proc[Other(p)].pc = "update_watermark"]
    /\ UNCHANGED <<shared_db, shared_user_key_seq>>
    /\ UNCHANGED <<etl_vars, fpc, recon_vars, seq_vars, journey_vars, diff_vars,
                   session_vars, actions_vars,
                   main_vars>>

\* reporting_session.commit() of the job
ConcRunCommit(p) ==
    LET me == loader_proc[p] IN
    /\ me.pc = "run_commit"
    /\ shared_db' = [shared_db EXCEPT !.etl_watermark =
                        {r \in @ : r.table_name # "rca_audit_trail"}
                            \cup me.new_watermark]
    /\ loader_proc' = [loader_proc EXCEPT ![p].new_watermark = {}, ![p].pc = "done"]
    /\ UNCHANGED shared_user_key_seq
    /\ UNCHANGED <<etl_vars, fpc, recon_vars, seq_vars, journey_vars, diff_vars,
                   session_vars, actions_vars,
                   main_vars>>

\* An invocation about to start; `selected`, `waited` and `prior_count` record
\* what its SELECT found, whether its upsert had to wait, and the row count of
\* the watermark before the two invocations.
InitProc(user_id, n_records, prior_count) ==
    [pc |-> "loop", user_id |-> user_id, n_records |-> n_records, loaded_count |-> 0,
     user_key_cache |-> NoneKey, selected |-> "unset", new_users |-> {},
     new_facts |-> <<>>, new_watermark |-> {}, waited |-> FALSE,
     prior_count |-> prior_count]

InitConc ==
    /\ EtlIdle /\ ReconIdle /\ SeqIdle /\ JourneyIdle /\ DiffIdle /\ SessionIdle /\ ActionsIdle /\ MainIdle
    /\ fpc = "idle"
    /\ \E users \in {{}, {"u2"}} :
       \E wm \in {{}, {PriorWatermark("rca_audit_trail")}} :
       \E ids \in [Procs -> UserIds] :
       \E n \in [Procs -> 1..MaxConcRecords] :
           /\ shared_db = [dim_user |-> {DimUser(12, u) : u \in users},
                           fact_rows |-> <<>>, etl_watermark |-> wm]
           /\ loader_proc =
                  [p \in Procs |->
                      InitProc(ids[p], n[p],
                               IF wm = {} THEN 0
                               ELSE PriorWatermark("rca_audit_trail").row_count_loaded)]
    /\ shared_user_key_seq = 13

NextConc ==
    \E p \in Procs :
        \/ ConcLoadRecord(p)
        \/ ConcFlushNewUser(p)
        \/ ConcFinalCommit(p)
        \/ ConcUpdateWatermark(p)
        \/ ConcRunCommit(p)

SpecConc == InitConc /\ [][NextConc]_vars

\* ------------------------------------------------------------ command line
\* main(): parse_args, the validation, and the loads the arguments select.

\* What argparse can hand to main: --cloudwatch-days is an int or None ({}),
\* --scenario-id a string or None.
CliArgs ==
    [full : BOOLEAN, incremental : BOOLEAN, scenario_id : {NULL, "", "s1"},
     cloudwatch_days : {{}} \cup {{n} : n \in 0..MaxCloudWatchDays},
     environment : {"dev", "sit", "uat", "prod"}, mock_cloudwatch : BOOLEAN]

\* Python truth of args.scenario_id and of args.cloudwatch_days.
ScenarioIdGiven(args) == args.scenario_id \notin {NULL, ""}
CloudWatchDaysGiven(args) == \E n \in args.cloudwatch_days : n # 0

\* any([args.full, args.incremental, args.scenario_id, args.cloudwatch_days])
AnyMode(args) ==
    args.full \/ args.incremental \/ ScenarioIdGiven(args) \/ CloudWatchDaysGiven(args)

\* load_audit_trail_data: since = None if full_load else now - since_hours
TimeCutoff(full, now, hours) ==
    IF full THEN {} ELSE {now - hours}

\* The call main makes of load_audit_trail_data, with the cutoff the callee
\* computes from its arguments.
AuditTrailCall(args, now) ==
    LET hours == IF args.incremental THEN IncrementalHours ELSE 0 IN
    [load |-> "audit_trail", full_load |-> args.full,
     scenario_id |-> IF ScenarioIdGiven(args) THEN args.scenario_id ELSE NULL,
     since_hours |-> hours,
     since |-> TimeCutoff(args.full, now, hours)]

CloudWatchCall(args) ==
    [load |-> "cloudwatch", days |-> args.cloudwatch_days,
     environment |-> args.environment, use_mock |-> args.mock_cloudwatch]

\* parser.error(...) prints the usage and exits; otherwise main goes on.
ValidateArguments ==
    /\ fpc = "main"
    /\ fpc' = IF AnyMode(cli_args) THEN "audit_trail" ELSE "usage_error"
    /\ UNCHANGED <<main_vars, etl_vars, recon_vars, seq_vars, journey_vars, diff_vars,
                   session_vars, actions_vars, conc_vars>>

\* if args.full or args.incremental or args.scenario_id: load_audit_trail_data(...)
RunAuditTrail ==
    /\ fpc = "audit_trail"
    /\ main_calls' = IF cli_args.full \/ cli_args.incremental \/ ScenarioIdGiven(cli_args)
                     THEN Append(main_calls, AuditTrailCall(cli_args, clock))
                     ELSE main_calls
    /\ fpc' = "cloudwatch"
    /\ UNCHANGED <<cli_args, etl_vars, recon_vars, seq_vars, journey_vars, diff_vars,
                   session_vars, actions_vars, conc_vars>>

\* if args.cloudwatch_days: load_cloudwatch_data(...)
RunCloudWatch ==
    /\ fpc = "cloudwatch"
    /\ main_calls' = IF CloudWatchDaysGiven(cli_args)
                     THEN Append(main_calls, CloudWatchCall(cli_args))
                     ELSE main_calls
    /\ fpc' = "summary"
    /\ UNCHANGED <<cli_args, etl_vars, recon_vars, seq_vars, journey_vars, diff_vars,
                   session_vars, actions_vars, conc_vars>>

\* The summary is printed and main returns.
PrintSummary ==
    /\ fpc = "summary"
    /\ fpc' = "exit"
    /\ UNCHANGED <<main_vars, etl_vars, recon_vars, seq_vars, journey_vars, diff_vars,
                   session_vars, actions_vars, conc_vars>>

InitMain ==
    /\ EtlIdle /\ ReconIdle /\ SeqIdle /\ JourneyIdle /\ DiffIdle /\ SessionIdle /\ ActionsIdle /\ ConcIdle
    /\ fpc = "main"
    /\ cli_args \in CliArgs
    /\ main_calls = <<>>

NextMain ==
    \/ ValidateArguments
    \/ RunAuditTrail
    \/ RunCloudWatch
    \/ PrintSummary

SpecMain == InitMain /\ [][NextMain]_vars

\* ================================================================ claims
Resolves(scenario_id) == \E r \in db0.dim_scenario : r.scenario_id = scenario_id

FactTable(store, l) ==
    CASE l = "state_changes" -> store.fact_scenario_state_change
      [] l = "user_actions" -> store.fact_user_action
      [] l = "cloudwatch_logs" -> store.fact_cloudwatch_log
      [] l = "run_diagnostics" -> store.fact_run_diagnostic

PriorCount(tn) ==
    LET old == {r \in db0.etl_watermark : r.table_name = tn}
    IN  IF old = {} THEN 0 ELSE (CHOOSE r \in old : TRUE).row_count_loaded

\* C1: when load_state_changes returns, the fact rows it persisted are exactly
\* as many as the input records whose scenario id has a Scenario dimension row
\* (0 for an absent scenario, k for k records of a present one), and that
\* number is the returned loaded count.
C1_PersistedEqualsResolved ==
    (pc = "return" /\ loader = "state_changes") =>
        LET k == SumOver(fed, {id \in ScenarioIds : Resolves(id)}) IN
        /\ Len(db.fact_scenario_state_change) = k
        /\ returned["state_changes"] = k
        /\ \A i \in 1..Len(db.fact_scenario_state_change) :
               Resolves(db.fact_scenario_state_change[i].scenario_id)

C1_Witness ==
    /\ pc = "return" /\ loader = "state_changes"
    /\ Resolves("s1") /\ fed["s1"] >= 2
    /\ ~Resolves("s2") /\ fed["s2"] >= 1
    /\ Len(db.fact_scenario_state_change) = fed["s1"]

\* C2: when a step of a run raises, the session is rolled back and the
\* committed Watermark rows are those from before the run; the watermark is
\* changed by nothing but a run that completes.
C2_FailureLeavesWatermark ==
    /\ pc # "done" => db.etl_watermark = db0.etl_watermark
    /\ pc = "failed" => sess = db

C2_Witness ==
    /\ pc = "failed" /\ failed_at = "run_commit"
    /\ job = "audit_trail"
    /\ db0.etl_watermark # {}
    /\ returned["state_changes"] + returned["user_actions"] >= 2

\* C3: after a run completes, the Watermark row of its table has
\* last_loaded_at equal to the extraction cutoff of that run's extract, its
\* row_count_loaded raised by the rows loaded in the run, and status success.
C3_WatermarkAtExtractionCutoff ==
    (pc = "done" /\ job # "run_diagnostics") =>
        \E r \in db.etl_watermark :
            /\ r.table_name = JobTable
            /\ {r.last_loaded_at} = extraction_cutoff
            /\ r.row_count_loaded = PriorCount(JobTable) + WatermarkRows
            /\ r.status = "success"

ClaimedBatch(l) == IF l = "cloudwatch_logs" THEN 1000 ELSE 500

\* C4: when the process dies inside a fact loader, the committed fact rows
\* are a prefix, in load order, of the rows added so far, their number is a
\* multiple of the loader's batch size N (500, 1000 for CloudWatch logs), and
\* at most N added rows are lost.
C4_CrashLosesOnlyTail ==
    (pc = "crashed" /\ failed_at \in {"loop", "batch_commit", "final_commit"}) =>
        LET committed == FactTable(db, loader)
            added == FactTable(sess, loader)
            N == ClaimedBatch(loader)
        IN  /\ IsPrefix(committed, added)
            /\ \A i \in 1..(Len(added) - 1) :
                   added[i].correlation_id < added[i + 1].correlation_id
            /\ Len(committed) % N = 0
            /\ Len(added) - Len(committed) < N + 1

C4_Witness ==
    /\ pc = "crashed" /\ failed_at = "batch_commit"
    /\ loader = "user_actions"
    /\ Len(db.fact_user_action) = 500
    /\ Len(sess.fact_user_action) = 1000

\* C5: within one loader invocation, a user id that had no User dimension row
\* when the loader started is looked up once and created once however often it
\* is resolved, every resolution returns the one key, and the session holds
\* exactly one row for it, with display name equal to the user id.
C5_UnknownUserResolvedOnce ==
    (loader \in {"state_changes", "user_actions"} /\ pc # "failed") =>
        \A u \in UserIds :
            (u \notin known_users /\ user_stats[u].resolutions >= 1) =>
                LET rows == {r \in sess.dim_user : r.user_id = u} IN
                /\ user_stats[u].lookups = 1
                /\ user_stats[u].creates = 1
                /\ Cardinality(user_stats[u].keys) = 1
                /\ Cardinality(rows) = 1
                /\ \A r \in rows : r.display_name = u /\ r.user_key \in user_stats[u].keys

C5_Witness ==
    /\ pc = "return"
    /\ \E u \in UserIds : u \notin known_users /\ user_stats[u].resolutions >= 2

NullKeyRows(table) == {i \in 1..Len(table) : table[i].scenario_key = NoneKey}

OnlyCreatedSubmittedLocked(scenario) ==
    /\ scenario.submitted_at # NoInstant /\ scenario.locked_at # NoInstant
    /\ scenario.withdraw_at = NoInstant /\ scenario.delete_at = NoInstant
    /\ scenario.created_at <= scenario.submitted_at
    /\ scenario.submitted_at <= scenario.locked_at

TransitionsOf(scenario_id) ==
    LET Own(t) == t.scenario_id = scenario_id IN SelectSeq(transitions, Own)

\* C7: a scenario the query returned whose only lifecycle timestamps are
\* created_at <= submitted_at <= locked_at has exactly three transitions
\* yielded for it, ascending by changed_at and chained null -> draft,
\* draft -> submitted, submitted -> locked.
C7_ThreeChainedTransitions ==
    \A i \in 1..n_yielded :
        OnlyCreatedSubmittedLocked(scenarios[i]) =>
            LET t == TransitionsOf(scenarios[i].id) IN
            /\ Len(t) = 3
            /\ \A j \in 1..2 : t[j].changed_at <= t[j + 1].changed_at
            /\ t[1].previous_status = NULL
            /\ \A j \in 2..3 : t[j].previous_status = t[j - 1].new_status
            /\ <<t[1].new_status, t[2].new_status, t[3].new_status>> =
                   <<"draft", "submitted", "locked">>
            /\ <<t[1].changed_at, t[2].changed_at, t[3].changed_at>> =
                   <<scenarios[i].created_at, scenarios[i].submitted_at,
                     scenarios[i].locked_at>>

C7_Witness ==
    /\ fpc = "exhausted" /\ n_yielded = 1
    /\ OnlyCreatedSubmittedLocked(scenarios[1])
    /\ scenarios[1].created_at < scenarios[1].submitted_at
    /\ scenarios[1].submitted_at < scenarios[1].locked_at
    /\ scenarios[1].status = "locked"
    /\ Len(transitions) = 3
    /\ transitions[3].new_status = "locked"

NodesOf(records) == [i \in 1..Len(records) |-> records[i].model_node_id]

\* C8: the i-th row of the query's result that targets a node is stamped
\* change_sequence = i, counting from 1 without gaps, and the changes come out
\* in the order of the rows; for the nodes A,B,A,B,A the stamps are A: 1,2,3
\* and B: 1,2.
C8_PerNodeSequence ==
    /\ Len(changes) <= Len(node_data_records)
    /\ fpc = "return" => Len(changes) = Len(node_data_records)
    /\ \A i \in 1..Len(changes) :
        /\ changes[i].node_data_id = node_data_records[i].id
        /\ changes[i].model_node_id = node_data_records[i].model_node_id
        /\ changes[i].changed_at = node_data_records[i].created_at
        /\ changes[i].change_sequence =
               Cardinality({j \in 1..i : node_data_records[j].model_node_id =
                                             node_data_records[i].model_node_id})
    /\ (fpc = "return" /\ NodesOf(node_data_records) = <<"A", "B", "A", "B", "A">>) =>
           [i \in 1..5 |-> changes[i].change_sequence] = <<1, 1, 2, 2, 3>>

C8_Witness ==
    /\ fpc = "return"
    /\ NodesOf(node_data_records) = <<"A", "B", "A", "B", "A">>
    /\ [i \in 1..5 |-> changes[i].change_sequence] = <<1, 1, 2, 2, 3>>
    /\ node_data_records[2].created_at = node_data_records[3].created_at
    /\ node_data_records[1].created_at < node_data_records[5].created_at

\* C9: the list reconstruct_user_journey returns is sorted non-decreasing by
\* event_timestamp whatever the four input lists hold, and is empty when all
\* four are empty.
C9_TimelineSorted ==
    fpc = "return" =>
        /\ \A i \in 1..(Len(timeline) - 1) :
               timeline[i].event_timestamp <= timeline[i + 1].event_timestamp
        /\ journey_args = NoStreams => timeline = <<>>

C9_Witness ==
    /\ fpc = "return"
    /\ Len(journey_args.state_changes) = 2
    /\ journey_args.state_changes[1].changed_at > journey_args.state_changes[2].changed_at
    /\ Len(journey_args.runs) = 1
    /\ journey_args.runs[1].run_ended_at # NoInstant
    /\ journey_args.runs[1].run_started_at < journey_args.state_changes[1].changed_at
    /\ Len(timeline) = 4
    /\ timeline[1].event_type = "run_started"
    /\ timeline[1].event_timestamp < timeline[4].event_timestamp

\* The runs of the asked scenario that succeeded and started strictly before
\* the target run, by run id.
BaselineCandidates ==
    {i \in 1..Len(diff_args.all_runs) :
        /\ diff_args.all_runs[i].scenario_id = diff_args.scenario_id
        /\ diff_args.all_runs[i].run_status = "success"
        /\ diff_args.all_runs[i].run_started_at <
               diff_args.all_runs[diff_args.target_run_id].run_started_at}

SuccessFailedFailedExample ==
    /\ Len(diff_args.all_runs) = 3
    /\ \A i \in 1..3 : diff_args.all_runs[i].scenario_id = "s1"
    /\ [i \in 1..3 |-> diff_args.all_runs[i].run_status] =
           <<"success", "failed", "failed">>
    /\ diff_args.all_runs[1].run_started_at < diff_args.all_runs[2].run_started_at
    /\ Len(diff_args.input_changes) = 1
    /\ diff_args.input_changes[1].model_node_id = "X"
    /\ diff_args.all_runs[2].run_started_at < diff_args.input_changes[1].changed_at
    /\ diff_args.input_changes[1].changed_at < diff_args.all_runs[3].run_started_at
    /\ diff_args.target_run_id = 3

SessionStarts ==
    {i \in 1..Len(actions) :
        \/ i = 1
        \/ actions[i].user_id # actions[i - 1].user_id
        \/ actions[i].action_timestamp - actions[i - 1].action_timestamp >
               session_args.session_gap_minutes}

KthStart(k) ==
    IF k > Cardinality(SessionStarts) THEN Len(actions) + 1
    ELSE CHOOSE b \in SessionStarts : Cardinality({x \in SessionStarts : x <= b}) = k

TenAndFortyFiveExample ==
    /\ Len(actions) = 3
    /\ \A i \in 1..3 : actions[i].user_id = "u1"
    /\ [i \in 1..3 |-> actions[i].action_timestamp] = <<0, 10, 45>>
    /\ session_args.session_gap_minutes = 30

\* C11: a session starts exactly at the first action, at a change of actor and
\* at a gap to the previous action that strictly exceeds the threshold; the
\* k-th session runs from the k-th such action to the action before the next.
\* One actor's actions at t, t+10, t+45 with threshold 30 give the sessions
\* (t, t+10) and (t+45, t+45).
C11_SessionBoundaries ==
    fpc = "return" =>
        /\ Len(sessions) = Cardinality(SessionStarts)
        /\ \A k \in 1..Len(sessions) :
               /\ sessions[k].user_id = actions[KthStart(k)].user_id
               /\ sessions[k].started_at = actions[KthStart(k)].action_timestamp
               /\ sessions[k].ended_at = actions[KthStart(k + 1) - 1].action_timestamp
               /\ sessions[k].action_count = KthStart(k + 1) - KthStart(k)
        /\ TenAndFortyFiveExample =>
               [k \in 1..Len(sessions) |-> <<sessions[k].started_at, sessions[k].ended_at>>]
                   = <<(<<0, 10>>), (<<45, 45>>)>>

C11_Witness ==
    /\ fpc = "return"
    /\ TenAndFortyFiveExample
    /\ session_args.user_actions[1].action_timestamp = 45
    /\ Len(sessions) = 2
    /\ <<sessions[1].started_at, sessions[1].ended_at>> = <<0, 10>>
    /\ <<sessions[2].started_at, sessions[2].ended_at>> = <<45, 45>>

\* C12: every action record extract_user_actions yields has a non-null
\* correlation_id.
C12_CorrelationIdNonNull ==
    \A i \in 1..Len(yielded_actions) : yielded_actions[i].correlation_id # NULL

ActionsOfType(action_type) ==
    {i \in 1..Len(yielded_actions) : yielded_actions[i].action_type = action_type}

\* C13: with a cutoff every yielded action's action_timestamp is at or after
\* it; without a cutoff (and without a scenario filter) every source row has
\* its actions yielded: the scenario's creation, its update when updated_at
\* differs from created_at, its submission when submitted, every input edit
\* and every run.
C13_CutoffRestrictsActions ==
    /\ arg_since # NoInstant =>
           \A i \in 1..Len(yielded_actions) :
               yielded_actions[i].action_timestamp >= arg_since
    /\ (fpc = "exhausted" /\ arg_since = NoInstant /\ arg_scenario_ids = {}) =>
           LET scenario == fc_scenario[1] IN
           /\ \E i \in ActionsOfType("create_scenario") :
                  yielded_actions[i].action_timestamp = scenario.created_at
           /\ scenario.updated_at # scenario.created_at =>
                  \E i \in ActionsOfType("update_scenario") :
                      yielded_actions[i].action_timestamp = scenario.updated_at
           /\ scenario.submitted_at # NoInstant =>
                  \E i \in ActionsOfType("submit_scenario") :
                      yielded_actions[i].action_timestamp = scenario.submitted_at
           /\ Cardinality(ActionsOfType("edit_input_data")) = Len(fc_scenario_node_data)
           /\ \A j \in 1..Len(fc_scenario_node_data) :
                  \E i \in ActionsOfType("edit_input_data") :
                      yielded_actions[i].action_timestamp =
                          fc_scenario_node_data[j].created_at
           /\ Cardinality(ActionsOfType("run_forecast")) = Len(fc_scenario_run)
           /\ \A j \in 1..Len(fc_scenario_run) :
                  \E i \in ActionsOfType("run_forecast") :
                      yielded_actions[i].action_timestamp = fc_scenario_run[j].run_at

C13_Witness ==
    /\ fpc = "exhausted"
    /\ arg_since = 2
    /\ fc_scenario[1].created_at = 1 /\ fc_scenario[1].updated_at = 3
    /\ fc_scenario[1].submitted_at = 1
    /\ Len(fc_scenario_node_data) = 1 /\ fc_scenario_node_data[1].created_at = 1
    /\ Len(fc_scenario_run) = 1 /\ fc_scenario_run[1].run_at = 2
    /\ [i \in 1..Len(yielded_actions) |-> yielded_actions[i].action_type] =
           <<"update_scenario", "run_forecast">>

\* load_user_actions: success=action.get("success", True),
\* error_message=action.get("error_message")
FactUserActionOutcome(action) ==
    [success |-> IF "success" \in DOMAIN action THEN action.success ELSE TRUE,
     error_message |-> IF "error_message" \in DOMAIN action
                       THEN action.error_message ELSE NULL]

\* C14: the run_forecast action of a failed run has success = false and the
\* fact row persisted from it holds the run's fail reason as its
\* error_message; the actions of the other sources have success = true.
C14_FailReasonPersisted ==
    \A i \in 1..Len(yielded_actions) :
        IF yielded_actions[i].action_type = "run_forecast"
        THEN fc_scenario_run[1].run_status = "failed" =>
                 /\ FactUserActionOutcome(yielded_actions[i]).success = FALSE
                 /\ FactUserActionOutcome(yielded_actions[i]).error_message =
                        fc_scenario_run[1].fail_reason
        ELSE FactUserActionOutcome(yielded_actions[i]).success = TRUE

\* C18: each record extract_user_actions yields has a timestamp at or after
\* that of the record yielded before it.
C18_YieldedInTimeOrder ==
    \A i \in 1..(Len(yielded_actions) - 1) :
        yielded_actions[i].action_timestamp <= yielded_actions[i + 1].action_timestamp

\* Both invocations looked the same user id up and neither found a row.
BothMetSameNewUser ==
    /\ loader_proc[1].user_id = loader_proc[2].user_id
    /\ \A p \in Procs : loader_proc[p].selected = "none"

\* C15: when two concurrent loader invocations both meet the same user id
\* that has no dim_user row, both complete without error, one dim_user row
\* exists for the id afterwards and the fact rows of both carry its key.
C15_ConcurrentUserCreation ==
    (BothMetSameNewUser /\ \A p \in Procs : loader_proc[p].pc \in {"done", "failed"}) =>
        LET rows == {r \in shared_db.dim_user : r.user_id = loader_proc[1].user_id} IN
        /\ \A p \in Procs : loader_proc[p].pc = "done"
        /\ Cardinality(rows) = 1
        /\ \A i \in 1..Len(shared_db.fact_rows) :
               \E r \in rows : shared_db.fact_rows[i].changed_by_user_key = r.user_key

\* C16: when two concurrent invocations have both committed their watermark
\* upsert of the same table, row_count_loaded is its value from before plus
\* the row counts of both, under every interleaving.
C16_NoLostIncrement ==
    (\A p \in Procs : loader_proc[p].pc = "done") =>
        \E r \in shared_db.etl_watermark :
            /\ r.table_name = "rca_audit_trail"
            /\ r.row_count_loaded =
                   loader_proc[1].prior_count + loader_proc[1].loaded_count
                       + loader_proc[2].loaded_count

C16_Witness ==
    /\ \A p \in Procs : loader_proc[p].pc = "done"
    /\ loader_proc[2].waited
    /\ loader_proc[1].prior_count = 7
    /\ loader_proc[1].loaded_count = 1 /\ loader_proc[2].loaded_count = 2
    /\ \E r \in shared_db.etl_watermark : r.row_count_loaded = 10

\* C17: after update_watermark the row of the job's table holds the earlier
\* row count plus the given one (the given one alone when there was no row),
\* and every other field, last_run_started included, holds the new run's value.
C17_UpsertOverwritesOtherFields ==
    (pc = "run_commit") =>
        \E r \in sess.etl_watermark :
            /\ r.table_name = JobTable
            /\ r.row_count_loaded = PriorCount(JobTable) + WatermarkRows
            /\ r.last_loaded_at = WatermarkInstant(clock)
            /\ r.last_run_started = clock
            /\ r.last_run_completed = clock
            /\ r.status = "success"

\* What load_state_changes hands back to its caller: the loaded count.
LoadStateChangesResult == [loaded_count |-> returned["state_changes"]]

\* C19: when load_state_changes returns, what it hands to its caller includes
\* the number of input records it skipped for want of a Scenario dimension row.
C19_SkipCountSurfaced ==
    (pc = "return" /\ loader = "state_changes") =>
        /\ "skipped_count" \in DOMAIN LoadStateChangesResult
        /\ LoadStateChangesResult.skipped_count =
               SumOver(fed, {id \in ScenarioIds : ~Resolves(id)})

\* The status fields of the FactScenarioStateChange row load_state_changes
\* builds from a change: previous_status by get, the other two by subscript.
FactScenarioStateChangeStatus(change) ==
    [previous_status |-> IF "previous_status" \in DOMAIN change
                         THEN change.previous_status ELSE NULL,
     new_status |-> change["new_status"],
     transition_type |-> change["transition_type"]]

StatusFieldsWellFormed(r) ==
    /\ r.new_status # NULL
    /\ (r.previous_status = NULL) <=> (r.transition_type = "created")

\* C20: every state change extract_scenario_state_changes yields, and the fact
\* row built from it, has a new_status, and has no previous_status exactly
\* when its transition_type is 'created', whatever milestones are present and
\* whatever the scenario's current status.
C20_StatusNullness ==
    \A i \in 1..Len(transitions) :
        /\ StatusFieldsWellFormed(transitions[i])
        /\ StatusFieldsWellFormed(FactScenarioStateChangeStatus(transitions[i]))

C20_Witness ==
    /\ fpc = "exhausted"
    /\ Len(transitions) = 5
    /\ fc_scenario[1].status = "withdrawn"
    /\ \E i \in 1..5 :
           /\ transitions[i].transition_type = "withdrawn"
           /\ FactScenarioStateChangeStatus(transitions[i]).previous_status = "submitted"
    /\ \E i \in 1..5 :
           /\ transitions[i].transition_type = "created"
           /\ FactScenarioStateChangeStatus(transitions[i]).previous_status = NULL

Milestones ==
    {[col |-> "created_at", type |-> "created"],
     [col |-> "submitted_at", type |-> "submitted"],
     [col |-> "locked_at", type |-> "locked"],
     [col |-> "withdraw_at", type |-> "withdrawn"],
     [col |-> "delete_at", type |-> "deleted"]}

\* The (previous_status, new_status) a milestone's transition is to carry.
MilestoneStatuses(scenario, type) ==
    CASE type = "created" -> <<NULL, "draft">>
      [] type = "submitted" -> <<"draft", "submitted">>
      [] type = "locked" -> <<"submitted", "locked">>
      [] type = "withdrawn" ->
             <<IF scenario.status = "withdrawn" THEN "submitted" ELSE scenario.status,
               "withdrawn">>
      [] type = "deleted" ->
             <<IF scenario.status = "deleted" THEN "draft" ELSE scenario.status,
               "deleted">>

\* C21: for a scenario the generator has gone through, each milestone whose
\* timestamp is present has exactly one transition and each absent one has
\* none; a transition carries its milestone's previous and new status and
\* timestamp; and the transitions are ascending by changed_at.
C21_OneTransitionPerMilestone ==
    (fpc = "exhausted" /\ n_yielded = 1) =>
        LET scenario == scenarios[1] IN
        /\ \A m \in Milestones :
               Cardinality({i \in 1..Len(transitions) :
                                transitions[i].transition_type = m.type})
                   = IF scenario[m.col] # NoInstant THEN 1 ELSE 0
        /\ \A i \in 1..Len(transitions) :
               \E m \in Milestones :
                   /\ transitions[i].transition_type = m.type
                   /\ transitions[i].changed_at = scenario[m.col]
                   /\ <<transitions[i].previous_status, transitions[i].new_status>>
                          = MilestoneStatuses(scenario, m.type)
        /\ \A i \in 1..(Len(transitions) - 1) :
               transitions[i].changed_at <= transitions[i + 1].changed_at

C21_Witness ==
    /\ fpc = "exhausted" /\ n_yielded = 1
    /\ scenarios[1].status = "deleted"
    /\ scenarios[1].created_at = NoInstant /\ scenarios[1].locked_at = NoInstant
    /\ scenarios[1].delete_at # NoInstant
    /\ scenarios[1].withdraw_at # NoInstant
    /\ scenarios[1].submitted_at > scenarios[1].delete_at
    /\ Len(transitions) = 3
    /\ transitions[1].previous_status = "draft" /\ transitions[1].new_status = "deleted"
    /\ transitions[2].transition_type = "withdrawn"
    /\ transitions[3].transition_type = "submitted"

NoMilestone(scenario) == \A m \in Milestones : scenario[m.col] = NoInstant

OnlyCreated(scenario) ==
    \A m \in Milestones : (scenario[m.col] # NoInstant) <=> (m.col = "created_at")

\* C22: a scenario with none of the five lifecycle timestamps set is gone
\* through with no transition yielded for it, and a scenario with created_at
\* alone set has exactly one, its 'created' transition.
C22_NoMilestoneNoTransition ==
    \A i \in 1..n_yielded :
        /\ NoMilestone(scenarios[i]) => TransitionsOf(scenarios[i].id) = <<>>
        /\ OnlyCreated(scenarios[i]) =>
               /\ Len(TransitionsOf(scenarios[i].id)) = 1
               /\ TransitionsOf(scenarios[i].id)[1].transition_type = "created"

C22_Witness ==
    /\ fpc = "exhausted" /\ n_yielded = 1
    /\ NoMilestone(scenarios[1])
    /\ arg_since # NoInstant
    /\ transitions = <<>>

\* C27: with a cutoff `since`, every transition extract_scenario_state_changes
\* yields has changed_at at or after the cutoff.
C27_CutoffRestrictsTransitions ==
    arg_since # NoInstant =>
        \A i \in 1..Len(transitions) : transitions[i].changed_at >= arg_since

\* C29: the transitions yielded for a scenario form a chain: each one after
\* the first has the new_status of the one yielded before it as its
\* previous_status.
C29_TransitionsChain ==
    \A i \in 1..n_yielded :
        LET t == TransitionsOf(scenarios[i].id) IN
        \A k \in 2..Len(t) : t[k].previous_status = t[k - 1].new_status

\* The places in input_changes of the changes after the baseline's start and
\* not after the target's.
ChangesInInterval ==
    {i \in 1..Len(diff_args.input_changes) :
        /\ diff_result.previous_successful_run.started_at <
               diff_args.input_changes[i].changed_at
        /\ diff_args.input_changes[i].changed_at <= diff_result.target_run.started_at}

C24_NoBaselineIsNormalResult ==
    (/\ fpc = "return"
     /\ diff_args.target_run_id \in 1..Len(diff_args.all_runs)
     /\ diff_args.all_runs[diff_args.target_run_id].scenario_id = diff_args.scenario_id
     /\ BaselineCandidates = {}) =>
        /\ DOMAIN diff_result = {"target_run", "previous_successful_run",
                                 "input_changes_between", "message"}
        /\ diff_result.previous_successful_run = NULL
        /\ diff_result.input_changes_between = <<>>
        /\ diff_result.target_run.run_id = diff_args.target_run_id

C24_Witness ==
    /\ fpc = "return"
    /\ Len(diff_args.all_runs) = 2
    /\ diff_args.target_run_id = 2
    /\ \A i \in 1..2 : /\ diff_args.all_runs[i].scenario_id = "s1"
                       /\ diff_args.all_runs[i].run_status = "success"
                       /\ diff_args.all_runs[i].run_started_at = 2
    /\ Len(diff_args.input_changes) = 2
    /\ "message" \in DOMAIN diff_result
    /\ diff_result.previous_successful_run = NULL

EndedRuns == {i \in 1..Len(journey_args.runs) : journey_args.runs[i].run_ended_at # NoInstant}

EventsOfType(type) == {i \in 1..Len(timeline) : timeline[i].event_type = type}

\* C25: the timeline has one run_started event per run and one run_completed
\* event per run with an end timestamp, so its length is the lengths of the
\* four lists plus the number of ended runs; a run_started event's metadata
\* has the status and neither duration nor fail_reason, a run_completed
\* event's metadata has all three.
C25_RunEventsAndMetadata ==
    fpc \in {"sort", "return"} =>
        /\ Len(timeline) = Len(journey_args.state_changes) + Len(journey_args.user_actions)
                               + Len(journey_args.input_changes) + Len(journey_args.runs)
                               + Cardinality(EndedRuns)
        /\ Cardinality(EventsOfType("run_started")) = Len(journey_args.runs)
        /\ Cardinality(EventsOfType("run_completed")) = Cardinality(EndedRuns)
        /\ \A i \in EventsOfType("run_started") :
               /\ "run_status" \in DOMAIN timeline[i].event_metadata
               /\ "duration_seconds" \notin DOMAIN timeline[i].event_metadata
               /\ "fail_reason" \notin DOMAIN timeline[i].event_metadata
               /\ \E k \in 1..Len(journey_args.runs) :
                      /\ journey_args.runs[k].run_started_at = timeline[i].event_timestamp
                      /\ journey_args.runs[k].run_status = timeline[i].event_metadata.run_status
        /\ \A i \in EventsOfType("run_completed") :
               /\ {"run_status", "duration_seconds", "fail_reason"}
                      \subseteq DOMAIN timeline[i].event_metadata
               /\ \E k \in EndedRuns :
                      /\ journey_args.runs[k].run_ended_at = timeline[i].event_timestamp
                      /\ journey_args.runs[k].run_status = timeline[i].event_metadata.run_status
                      /\ journey_args.runs[k].fail_reason = timeline[i].event_metadata.fail_reason

C25_Witness ==
    /\ fpc = "return"
    /\ Len(journey_args.runs) = 2 /\ Len(journey_args.user_actions) = 1
    /\ journey_args.runs[1].run_ended_at = NoInstant
    /\ journey_args.runs[2].run_ended_at # NoInstant
    /\ journey_args.runs[2].run_status = "failed"
    /\ Len(timeline) = 4
    /\ \E i \in 1..4 : /\ timeline[i].event_type = "run_completed"
                       /\ timeline[i].event_metadata.fail_reason = "boom"

ModesSelected ==
    {m \in {"full", "incremental", "scenario_id"} :
        \/ m = "full" /\ cli_args.full
        \/ m = "incremental" /\ cli_args.incremental
        \/ m = "scenario_id" /\ ScenarioIdGiven(cli_args)}

\* C26: an invocation that selects more than one of --full, --incremental and
\* --scenario-id, or that selects no mode and no CloudWatch load, ends in the
\* usage error and runs no load.
C26_ExclusiveModesRejected ==
    (\/ Cardinality(ModesSelected) > 1
     \/ ModesSelected = {} /\ ~CloudWatchDaysGiven(cli_args)) =>
        /\ fpc \in {"main", "usage_error"}
        /\ main_calls = <<>>

\* The instants, in hours, records that exist in the source when the run
\* starts can bear: the run's start and the hours before it.
ExistingInstants == (clock - IncrementalHours - 1)..clock

\* C28: the cutoff of a load_audit_trail_data call made for --scenario-id alone
\* excludes no instant of a record that exists when the run starts.
C28_SingleTargetCutoffExcludesNothing ==
    (ModesSelected = {"scenario_id"}) =>
        \A i \in 1..Len(main_calls) :
            main_calls[i].load = "audit_trail" =>
                \A t \in main_calls[i].since : \A r \in ExistingInstants : r >= t

UserKeys(store) == {r.user_key : r \in store.dim_user}

ScenarioKeys(store) == {r.scenario_key : r \in store.dim_scenario}

KeysIn(rows, col) == {rows[i][col] : i \in 1..Len(rows)}

ReferencesResolve(store) ==
    LET user_keys == UserKeys(store)
        scenario_keys == ScenarioKeys(store)
    IN  /\ KeysIn(store.fact_scenario_state_change, "changed_by_user_key") \subseteq user_keys
        /\ KeysIn(store.fact_scenario_state_change, "scenario_key") \subseteq scenario_keys
        /\ KeysIn(store.fact_user_action, "user_key") \subseteq user_keys
        /\ KeysIn(store.fact_user_action, "scenario_key")
               \subseteq scenario_keys \cup {NoneKey}

\* C30: in the committed reporting store, at every point of a run and after a
\* rollback or a crash, every fact row's user key is the key of a committed
\* User dimension row and every non-null scenario key is the key of a Scenario
\* dimension row.
C30_ReferentialIntegrity == ReferencesResolve(db)

C30_Witness ==
    /\ pc = "crashed" /\ loader = "user_actions" /\ failed_at = "loop"
    /\ sess # db
    /\ \E i \in 1..Len(db.fact_scenario_state_change) :
           db.fact_scenario_state_change[i].changed_by_user_key \notin UserKeys(db0)
    /\ \E i \in 1..Len(sess.fact_user_action) :
           sess.fact_user_action[i].user_key \notin UserKeys(db)

====
